---- MODULE Spec2Model ----
(***************************************************************************)
(* Model of biblius/curve ("Achtung die Kurve"): the round/phase state     *)
(* machine of Kurve::update, the per-tick collision scan of                *)
(* Kurve::tick_running, the curve entity and the geometry kernel.          *)
(*                                                                         *)
(* Numbers.  Positions are f32 pixels in the source.  The model keeps      *)
(* them as integers counted in 1/PX of a pixel, and one update is one      *)
(* frame of 1/PX second, so that `velocity * delta` is exactly `velocity`  *)
(* sub-pixel units.  Rounded points (bounding boxes, trail points) are     *)
(* whole pixels.  Headings are multiples of a quarter turn, so that cos    *)
(* and sin are -1, 0 or 1.  Instants are frame counts; the durations of    *)
(* the source are scaled down to a few frames each.                        *)
(***************************************************************************)
EXTENDS Integers, Sequences, FiniteSets, TLC

VARIABLES
    state,          \* Kurve.state : KurvePhase
    players,        \* Kurve.players
    curves,         \* Kurve.curves
    bounds,         \* Kurve.bounds : ArenaBounds
    powers,         \* Kurve.powers : PowerSupply
    menu,           \* Kurve.menu : KurveMenu
    now,            \* Instant::now(), in frames
    size,           \* ctx.gfx.drawable_size()
    panic,          \* the message of the panic that ended the program, or ""
    handler,        \* which arm of Kurve::update ran in the last update
    collisions,     \* the bit-set tick_running built in its last scan
    returned,       \* what the last call of check_winner returned
    supply          \* Kurve.powers as the last update found it

vars ==
    <<state, players, curves, bounds, powers, menu, now, size, panic, handler, collisions,
      returned, supply>>

----------------------------------------------------------------------------
(* Bounds of the model *)

\* the clock stops here: no update is taken at now = MaxNow
MaxNow == 7

\* the frames the setup menu is given: no update of the Setup phase is taken
\* at now >= MaxSetup
MaxSetup == 4

\* the random draws of one update are taken from sample vectors 1 .. NSeeds
NSeeds == 4

----------------------------------------------------------------------------
(* Program constants *)

\* sub-pixel units per pixel, and frames per second
PX == 60

DEFAULT_ROTATION == 1
DEFAULT_VELOCITY == 60
DEFAULT_GIRTH == 2
TRAIL_SKIP_MIN == 2
TRAIL_SKIP_MAX == 4
WINNER_GLOAT_DURATION == 1
INV_DURATION == 1
MIN_POWERMOD_FUSE == 3
MAX_POWERMOD_FUSE == 5
POWERMOD_DURATION == 3
POWERMOD_SIZE == 16
DurationMax == 1000000

----------------------------------------------------------------------------
(* Geometry kernel *)

Abs(a) == IF a < 0 THEN -a ELSE a

Max2(a, b) == IF a >= b THEN a ELSE b

\* f32::round of the fraction num/den (den > 0): nearest integer, halves away
\* from zero
RoundDiv(num, den) ==
    IF num >= 0 THEN (2 * num + den) \div (2 * den)
    ELSE -((2 * (-num) + den) \div (2 * den))

\* f32::round of a sub-pixel coordinate, as a whole pixel
Round(u) == RoundDiv(u, PX)

Point(x, y) == [x |-> x, y |-> y]

\* Girth, by discriminant: Tiny, Small, Normal, Large, Larger, Chungus
Girths == 0 .. 5

GirthMin == 0

GirthMax == 5

\* Girth::as_f32, in sub-pixel units: 1.0, 1.5, 2.0, 4.0, 6.0, 8.0
as_f32(g) == <<60, 90, 120, 240, 360, 480>>[g + 1]

\* `girth.as_f32() as usize`
as_usize(g) == as_f32(g) \div PX

\* an increment that wraps around from the last level to the first
increment_wrapping(g) == (g + 1) % (GirthMax + 1)

\* Girth::increment
increment(g) == IF g = GirthMax THEN GirthMax ELSE g + 1

\* Girth::decrement
decrement(g) == IF g = GirthMin THEN GirthMin ELSE g - 1

\* BoundingBox::new(p, distance): p and distance in sub-pixel units, the nine
\* points in pixels, in the order of the array
BoundingBox(p, d) ==
    << Point(Round(p.x), Round(p.y)),
       Point(Round(p.x - d), Round(p.y - d)),
       Point(Round(p.x), Round(p.y - d)),
       Point(Round(p.x + d), Round(p.y - d)),
       Point(Round(p.x + d), Round(p.y)),
       Point(Round(p.x + d), Round(p.y + d)),
       Point(Round(p.x), Round(p.y + d)),
       Point(Round(p.x - d), Round(p.y + d)),
       Point(Round(p.x - d), Round(p.y)) >>

\* an interpolate whose step count is not clamped to 1
interpolate_unclamped(origin, target, girth) ==
    LET d_x == target.x - origin.x
        d_y == target.y - origin.y
        max == Max2(Abs(d_x), Abs(d_y))
        n == (max + PX - 1) \div PX
    IN [ points |-> [ k \in 1 .. n |->
                        Point(RoundDiv(origin.x * max + (k - 1) * PX * d_x, max * PX),
                              RoundDiv(origin.y * max + (k - 1) * PX * d_y, max * PX)) ],
         girth |-> girth ]

\* Line::interpolate(origin, target, girth)
interpolate(origin, target, girth) ==
    LET d_x == target.x - origin.x
        d_y == target.y - origin.y
        max == Max2(Max2(Abs(d_x), Abs(d_y)), PX)
        \* `while i < max` with i = 0., 1., ...: ceil(max) iterations
        n == (max + PX - 1) \div PX
    IN [ points |-> [ k \in 1 .. n |->
                        Point(RoundDiv(origin.x * max + (k - 1) * PX * d_x, max * PX),
                              RoundDiv(origin.y * max + (k - 1) * PX * d_y, max * PX)) ],
         girth |-> girth ]

\* check_border_collision
check_border_collision(x_min, x_max, y_min, y_max, bbox) ==
    \E k \in 1 .. 9 :
        \/ bbox[k].x * PX < x_min
        \/ bbox[k].x * PX > x_max
        \/ bbox[k].y * PX < y_min
        \/ bbox[k].y * PX > y_max

\* check_bbox_colision
check_bbox_colision(bbox, line) ==
    \E n \in 1 .. Len(line.points) :
        LET point_bbox == BoundingBox(Point(line.points[n].x * PX, line.points[n].y * PX),
                                      as_f32(line.girth) - PX)
        IN \E a \in 1 .. 9, b \in 1 .. 9 :
              point_bbox[a].x = bbox[b].x /\ point_bbox[a].y = bbox[b].y

\* ArenaBounds::new(center, size, mul): SIZE_SMALL = (0.35, 0.55)
ArenaBounds_new(cx, cy, sz) ==
    LET sx == (sz.w * 35) \div 100
        sy == (sz.h * 55) \div 100
    IN [ x_min |-> cx - sx \div 2, x_max |-> cx + sx \div 2,
         y_min |-> cy - sy \div 2, y_max |-> cy + sy \div 2 ]

\* Kurve::set_setup_bounds: SETUP_KURVE_CENTER = (0.7, 0.5)
setup_bounds(sz) == ArenaBounds_new((sz.w * 7) \div 10, sz.h \div 2, sz)

\* Kurve::set_running_bounds: ArenaBounds::new_center
running_bounds(sz) == ArenaBounds_new(sz.w \div 2, sz.h \div 2, sz)

----------------------------------------------------------------------------
(* Random draws.  thread_rng() is an input: every draw of one update is     *)
(* taken from the sample vector `seed` of that update.                      *)

\* the poses a curve is placed in, relative to the arena: position and heading
Poses(b) ==
    << [ x |-> b.x_min + 60,  y |-> b.y_min + 150, rot |-> 0 ],
       [ x |-> b.x_max - 180, y |-> b.y_min + 150, rot |-> 0 ],
       [ x |-> b.x_min + 420, y |-> b.y_min + 150, rot |-> 2 ],
       [ x |-> b.x_max - 360, y |-> b.y_min + 150, rot |-> 0 ],
       [ x |-> b.x_max - 360, y |-> b.y_max - 150, rot |-> 0 ],
       [ x |-> b.x_max - 180, y |-> b.y_max - 150, rot |-> 0 ] >>

\* sample vectors: pose and trail fuse of the curves of even and of odd index
Samples ==
    << [ pose |-> <<4, 5>>, fuse |-> <<2, 2>> ],
       [ pose |-> <<1, 3>>, fuse |-> <<3, 3>> ],
       [ pose |-> <<2, 1>>, fuse |-> <<3, 2>> ],
       [ pose |-> <<2, 6>>, fuse |-> <<2, 3>> ],
       [ pose |-> <<1, 6>>, fuse |-> <<2, 2>> ],
       [ pose |-> <<1, 5>>, fuse |-> <<3, 3>> ] >>

Sample(seed) == Samples[((seed - 1) % Len(Samples)) + 1]

\* ArenaBounds::random_pos and random_rot for the curve of index i
random_pose(b, seed, i) == Poses(b)[Sample(seed).pose[(i % 2) + 1]]

\* Curve::new_trail_fuse: TRAIL_SKIP_MIN .. TRAIL_SKIP_MAX - 1
new_trail_fuse(seed, i) ==
    TRAIL_SKIP_MIN + ((Sample(seed).fuse[(i % 2) + 1] - TRAIL_SKIP_MIN)
                        % (TRAIL_SKIP_MAX - TRAIL_SKIP_MIN))

\* gen_range(MIN_POWERMOD_FUSE..MAX_POWERMOD_FUSE)
new_power_fuse(seed) == MIN_POWERMOD_FUSE + (seed % (MAX_POWERMOD_FUSE - MIN_POWERMOD_FUSE))

\* ArenaBounds::random_pos for a pickup: on the first row, or far from every row
random_power_pos(b, seed) ==
    IF (seed \div 2) % 2 = 0
    THEN Point(b.x_min + 210, b.y_min + 150)
    ELSE Point(b.x_min + 210, b.y_min + 1050)

----------------------------------------------------------------------------
(* Curve entity *)

\* cos and sin of a heading of `rot` quarter turns
Cos(rot) == <<1, 0, -1, 0>>[(rot % 4) + 1]

Sin(rot) == <<0, 1, 0, -1>>[(rot % 4) + 1]

\* Curve::new_random_pos
new_random_pos(player_id, b, mv_keys, color, alive, velocity, seed, t) ==
    LET pose == random_pose(b, seed, player_id)
    IN [ player_id |-> player_id,
         position |-> Point(pose.x, pose.y),
         rotation |-> pose.rot,
         velocity |-> velocity,
         rotation_speed |-> DEFAULT_ROTATION,
         girth |-> DEFAULT_GIRTH,
         move_keys |-> mv_keys,
         lines |-> << >>,
         trail_fuse |-> new_trail_fuse(seed, player_id),
         trail_ts |-> t,
         trail_active |-> TRUE,
         alive |-> alive,
         color |-> color ]

\* Curve::rotate: `held` is the direction the held move keys turn towards
rotate(c, held) ==
    LET r1 == IF held = "cw" THEN c.rotation + c.rotation_speed ELSE c.rotation
        r2 == IF held = "ccw" THEN r1 - c.rotation_speed ELSE r1
    IN [c EXCEPT !.rotation = r2 % 4]

\* Curve::next_pos, with delta = 1 / PX
next_pos(c) ==
    Point(c.position.x + c.velocity * Cos(c.rotation),
          c.position.y + c.velocity * Sin(c.rotation))

\* Curve::mv
mv(c) == [c EXCEPT !.position = next_pos(c)]

\* tick_trail deciding on the flag it finds, before its timer checks
tick_trail_flag_at_start(c, t, fuse) ==
    LET c1 == IF t - c.trail_ts > c.trail_fuse
              THEN [c EXCEPT !.trail_active = FALSE, !.trail_ts = t]
              ELSE c
        c2 == IF t - c1.trail_ts > INV_DURATION /\ ~c1.trail_active
              THEN [c1 EXCEPT !.trail_active = TRUE, !.trail_fuse = fuse, !.trail_ts = t]
              ELSE c1
    IN IF c.trail_active
       THEN [c2 EXCEPT !.lines = Append(@, interpolate(c2.position, next_pos(c2), c2.girth))]
       ELSE c2

\* Curve::tick_trail at instant t; `fuse` is the draw of new_trail_fuse
tick_trail(c, t, fuse) ==
    LET c1 == IF t - c.trail_ts > c.trail_fuse
              THEN [c EXCEPT !.trail_active = FALSE, !.trail_ts = t]
              ELSE c
        c2 == IF t - c1.trail_ts > INV_DURATION /\ ~c1.trail_active
              THEN [c1 EXCEPT !.trail_active = TRUE, !.trail_fuse = fuse, !.trail_ts = t]
              ELSE c1
    IN IF c2.trail_active
       THEN [c2 EXCEPT !.lines = Append(@, interpolate(c2.position, next_pos(c2), c2.girth))]
       ELSE c2

----------------------------------------------------------------------------
(* Power-ups *)

PowerModifiers ==
    {"SpeedUp", "RotUp", "Invulnerability", "Anorexia", "SpeedDown", "RotDown", "Chungus"}

\* a list of spawned kinds with a kind that changes the velocity
POWERMODS_with_speed == <<"SpeedUp">>

\* the kinds that are spawned
POWERMODS == <<"Chungus">>

ROTUP == 1
VELO == 10

\* PowerModifier::apply at instant t
apply(ty, c, t) ==
    CASE ty = "SpeedUp" -> [c EXCEPT !.velocity = @ + VELO]
      [] ty = "RotUp" -> [c EXCEPT !.rotation_speed = @ + ROTUP]
      [] ty = "Invulnerability" ->
            [c EXCEPT !.trail_active = FALSE, !.trail_ts = t, !.trail_fuse = DurationMax]
      [] ty = "SpeedDown" -> [c EXCEPT !.velocity = @ - VELO]
      [] ty = "RotDown" -> [c EXCEPT !.rotation_speed = @ - ROTUP]
      [] ty = "Anorexia" -> IF c.girth > GirthMin THEN [c EXCEPT !.girth = decrement(@)] ELSE c
      [] ty = "Chungus" -> IF c.girth < GirthMax THEN [c EXCEPT !.girth = increment(@)] ELSE c

\* PowerModifier::remove at instant t; `fuse` is the draw of new_trail_fuse
remove(ty, c, t, fuse) ==
    CASE ty = "SpeedUp" -> IF c.velocity > VELO THEN [c EXCEPT !.velocity = @ - VELO] ELSE c
      [] ty = "RotUp" -> [c EXCEPT !.rotation_speed = @ - ROTUP]
      [] ty = "Invulnerability" ->
            [c EXCEPT !.trail_active = TRUE, !.trail_ts = t, !.trail_fuse = fuse]
      [] ty = "Anorexia" -> [c EXCEPT !.girth = increment(@)]
      [] ty = "SpeedDown" -> [c EXCEPT !.velocity = @ + VELO]
      [] ty = "RotDown" -> [c EXCEPT !.rotation_speed = @ + ROTUP]
      [] ty = "Chungus" -> [c EXCEPT !.girth = decrement(@)]

\* PowerMod::bounds: the square of side POWERMOD_SIZE around the pickup
powermod_bounds(pm) ==
    << pm.point.x - (POWERMOD_SIZE * PX) \div 2, pm.point.x + (POWERMOD_SIZE * PX) \div 2,
       pm.point.y - (POWERMOD_SIZE * PX) \div 2, pm.point.y + (POWERMOD_SIZE * PX) \div 2 >>

\* 1000 * cos(k * PI / 8) and 1000 * sin(k * PI / 8) for k = 0 .. 15
Cos8 == <<1000, 924, 707, 383, 0, -383, -707, -924, -1000, -924, -707, -383, 0, 383, 707, 924>>

Sin8 == <<0, 383, 707, 924, 1000, 924, 707, 383, 0, -383, -707, -924, -1000, -924, -707, -383>>

\* BoundingCircle::new(point, distance): the rounded points of PowerMod.bbox
BoundingCircle(p, d) ==
    { Point(RoundDiv(p.x * 1000 + d * Cos8[k], 1000 * PX),
            RoundDiv(p.y * 1000 + d * Sin8[k], 1000 * PX)) : k \in 1 .. 16 }

\* the pickup test of the scan for one curve's box: inside the square, or on a
\* point of the pickup's bounding circle
touches(bbox, pm) ==
    LET p_bounds == powermod_bounds(pm)
        circle == BoundingCircle(pm.point, POWERMOD_SIZE * PX)
    IN \E k \in 1 .. 9 :
          \/ /\ bbox[k].x * PX >= p_bounds[1]
             /\ bbox[k].x * PX <= p_bounds[2]
             /\ bbox[k].y * PX >= p_bounds[3]
             /\ bbox[k].y * PX <= p_bounds[4]
          \/ bbox[k] \in circle

\* a tick_powermods that spawns however many pickups there are
tick_powermods_uncapped(p, b, t, seed) ==
    IF t - p.last_powermod >= p.power_fuse
    THEN LET pm == [ id |-> p.last_id, point |-> random_power_pos(b, seed),
                     ty |-> POWERMODS[(seed % Len(POWERMODS)) + 1] ]
         IN [ p EXCEPT
                !.powermods = { q \in @ : q.id # p.last_id } \cup {pm},
                !.last_id = @ + 1,
                !.last_powermod = t,
                !.power_fuse = new_power_fuse(seed) ]
    ELSE p

\* PowerSupply::tick_powermods
tick_powermods(p, b, t, seed) ==
    IF t - p.last_powermod >= p.power_fuse
    THEN LET spawn == Cardinality(p.powermods) < 10
             pm == [ id |-> p.last_id, point |-> random_power_pos(b, seed),
                     ty |-> POWERMODS[(seed % Len(POWERMODS)) + 1] ]
         IN [ p EXCEPT
                !.powermods = IF spawn THEN { q \in @ : q.id # p.last_id } \cup {pm} ELSE @,
                !.last_id = IF spawn THEN @ + 1 ELSE @,
                !.last_powermod = t,
                !.power_fuse = new_power_fuse(seed) ]
    ELSE p

\* a reset that leaves the timeouts where they are
reset_powermods_keep_timeouts(p, t, seed) ==
    [ p EXCEPT !.power_fuse = new_power_fuse(seed),
               !.last_powermod = t,
               !.powermods = {},
               !.last_id = 0 ]

\* PowerSupply::reset_powermods
reset_powermods(p, t, seed) ==
    [ p EXCEPT !.power_fuse = new_power_fuse(seed),
               !.last_powermod = t,
               !.powermods = {},
               !.power_timeouts = << >>,
               !.last_id = 0 ]

\* PowerSupply::add_timeout
add_timeout(p, curve, ty, t) ==
    [ p EXCEPT !.power_timeouts = Append(@, [curve |-> curve, started |-> t, ty |-> ty]) ]

----------------------------------------------------------------------------
(* Kurve::tick_running.  Curve i of the source is curves[i + 1].            *)

\* 2^i
Pow2(i) == <<1, 2, 4, 8, 16, 32, 64, 128>>[i + 1]

\* bit i of the u8 bit-set
Bit(bits, i) == (bits \div Pow2(i)) % 2 = 1

\* `collisions |= 1 << i`
SetBit(bits, i) == IF Bit(bits, i) THEN bits ELSE bits + Pow2(i)

\* `collisions >> i`
Shr(bits, i) == bits \div Pow2(i)

\* the box the scan tests for curve i
scan_bbox(cs, i) == BoundingBox(next_pos(cs[i + 1]), as_f32(cs[i + 1].girth))

\* line_count with the window taken from the place of the girth in the enum
line_count_by_level(cs, i, j) ==
    LET lines == cs[j + 1].lines
        skip == 15 * Max2(cs[j + 1].girth - 1, 0)
    IN IF i = j THEN Max2(Len(lines) - skip, 0) ELSE Len(lines)

\* the lines of curve j the scan of curve i looks at: all but the last few of
\* its own
line_count(cs, i, j) ==
    LET lines == cs[j + 1].lines
        skip == 15 * Max2(as_usize(cs[j + 1].girth) - 1, 0)
    IN IF i = j THEN Max2(Len(lines) - skip, 0) ELSE Len(lines)

\* the trail check of the scan for curve i
trail_collision(cs, i) ==
    \E j \in 0 .. Len(cs) - 1 :
        \E n \in 1 .. line_count(cs, i, j) :
            check_bbox_colision(scan_bbox(cs, i), cs[j + 1].lines[n])

\* the pass of the scan's loop without its test of trail_active
scan_curve_no_invulnerability(cs, b, i, bits) ==
    IF check_border_collision(b.x_min, b.x_max, b.y_min, b.y_max, scan_bbox(cs, i))
    THEN SetBit(bits, i)
    ELSE IF trail_collision(cs, i) THEN SetBit(bits, i)
    ELSE bits

\* what one pass of the scan's loop adds to the bit-set for curve i
scan_curve(cs, b, i, bits) ==
    IF ~cs[i + 1].trail_active THEN bits
    ELSE IF check_border_collision(b.x_min, b.x_max, b.y_min, b.y_max, scan_bbox(cs, i))
         THEN SetBit(bits, i)
    ELSE IF trail_collision(cs, i) THEN SetBit(bits, i)
    ELSE bits

RECURSIVE scan_until_hit(_, _, _, _, _)

\* a scan that stops at the first curve it finds colliding
scan_until_hit(cs, b, order, k, bits) ==
    IF k > Len(order) \/ bits # 0 THEN bits
    ELSE scan_until_hit(cs, b, order, k + 1, scan_curve(cs, b, order[k], bits))

RECURSIVE scan_from(_, _, _, _, _)

\* the read-only scan, visiting the curves in the order `order` from its k-th
scan_from(cs, b, order, k, bits) ==
    IF k > Len(order) THEN bits
    ELSE scan_from(cs, b, order, k + 1, scan_curve(cs, b, order[k], bits))

\* the order of `self.curves.iter().enumerate()`
iter_order(cs) == [ k \in 1 .. Len(cs) |-> k - 1 ]

\* the collision bit-set of the scan
scan(cs, b, order) == scan_from(cs, b, order, 1, 0)

\* the pickups of `pms` curve i touches, as the entries pushed on
\* apply_power_mods, in increasing order of id
RECURSIVE touched(_, _, _)

touched(cs, i, pms) ==
    IF pms = {} THEN << >>
    ELSE LET pm == CHOOSE q \in pms : \A r \in pms : q.id <= r.id
             rest == touched(cs, i, pms \ {pm})
         IN IF touches(scan_bbox(cs, i), pm)
            THEN << [curve |-> i, power |-> pm.id, ty |-> pm.ty] >> \o rest
            ELSE rest

RECURSIVE scan_powermods(_, _, _, _)

\* apply_power_mods as the scan leaves it
scan_powermods(cs, pms, order, k) ==
    IF k > Len(order) THEN << >>
    ELSE touched(cs, order[k], pms) \o scan_powermods(cs, pms, order, k + 1)

RECURSIVE expire_timeouts_late(_, _, _, _, _)

\* a retain that lets a timeout live until it is older than the duration
expire_timeouts_late(cs, touts, k, t, seed) ==
    IF k > Len(touts) THEN [curves |-> cs, kept |-> << >>, panic |-> FALSE]
    ELSE LET timeout == touts[k]
             expired == t - timeout.started > POWERMOD_DURATION
         IN IF ~expired
            THEN LET r == expire_timeouts_late(cs, touts, k + 1, t, seed)
                 IN [r EXCEPT !.kept = <<timeout>> \o @]
            ELSE IF timeout.curve >= Len(cs)
            THEN [curves |-> cs, kept |-> << >>, panic |-> TRUE]
            ELSE expire_timeouts_late(
                    [cs EXCEPT ![timeout.curve + 1] =
                        remove(timeout.ty, @, t, new_trail_fuse(seed, timeout.curve))],
                    touts, k + 1, t, seed)

RECURSIVE expire_timeouts(_, _, _, _, _)

\* `power_timeouts.retain(..)` from its k-th entry: the curves after the
\* removals, the timeouts kept, and whether an index was out of range
expire_timeouts(cs, touts, k, t, seed) ==
    IF k > Len(touts) THEN [curves |-> cs, kept |-> << >>, panic |-> FALSE]
    ELSE LET timeout == touts[k]
             expired == t - timeout.started >= POWERMOD_DURATION
         IN IF ~expired
            THEN LET r == expire_timeouts(cs, touts, k + 1, t, seed)
                 IN [r EXCEPT !.kept = <<timeout>> \o @]
            ELSE IF timeout.curve >= Len(cs)
            THEN [curves |-> cs, kept |-> << >>, panic |-> TRUE]
            ELSE expire_timeouts(
                    [cs EXCEPT ![timeout.curve + 1] =
                        remove(timeout.ty, @, t, new_trail_fuse(seed, timeout.curve))],
                    touts, k + 1, t, seed)

RECURSIVE apply_powermods(_, _, _, _, _)

\* the `for (curve, power, powermod) in apply_power_mods` loop from its k-th
\* entry: the curves and the power supply after it
apply_powermods(cs, p, mods, k, t) ==
    IF k > Len(mods) THEN [curves |-> cs, powers |-> p]
    ELSE LET m == mods[k]
             p1 == [p EXCEPT !.powermods = { q \in @ : q.id # m.power }]
         IN apply_powermods([cs EXCEPT ![m.curve + 1] = apply(m.ty, @, t)],
                            add_timeout(p1, m.curve, m.ty, t), mods, k + 1, t)

\* the test of the `Apply collisions` loop for curve i
hit(bits, i) == Shr(bits, i) = 1

\* an `Apply collisions` loop that leaves the velocity of the curve it
\* eliminates
apply_collisions_keep_velocity(cs, bits) ==
    [ k \in 1 .. Len(cs) |->
        IF cs[k].alive /\ hit(bits, k - 1)
        THEN [cs[k] EXCEPT !.alive = FALSE]
        ELSE cs[k] ]

\* the `Apply collisions` loop
apply_collisions(cs, bits) ==
    [ k \in 1 .. Len(cs) |->
        IF cs[k].alive /\ hit(bits, k - 1)
        THEN [cs[k] EXCEPT !.velocity = 0, !.alive = FALSE]
        ELSE cs[k] ]

None == -1

\* a check_winner that never takes the winner back: the first living curve
\* from the k-th, whatever follows it
check_winner_first_alive(cs, k, winner, alive) ==
    LET living == { n \in k .. Len(cs) : cs[n].alive }
    IN IF living = {} THEN winner
       ELSE cs[CHOOSE n \in living : \A m \in living : n <= m].player_id

RECURSIVE check_winner_from(_, _, _, _)

\* the loop of Kurve::check_winner from the k-th curve
check_winner_from(cs, k, winner, alive) ==
    IF k > Len(cs) THEN winner
    ELSE LET w1 == IF cs[k].alive /\ alive < 1 THEN cs[k].player_id ELSE winner
             a1 == IF cs[k].alive THEN alive + 1 ELSE alive
         IN IF a1 > 1 THEN None ELSE check_winner_from(cs, k + 1, w1, a1)

\* a check_winner that names the first curve when no curve is alive
check_winner_or_first(cs) ==
    IF cs # << >> /\ \A n \in 1 .. Len(cs) : ~cs[n].alive
    THEN cs[1].player_id
    ELSE check_winner_from(cs, 1, None, 0)

\* Kurve::check_winner
check_winner(cs) == check_winner_from(cs, 1, None, 0)

\* the `Process movement` loop of tick_running and tick_winner
process_movement(cs, held, t, seed) ==
    [ k \in 1 .. Len(cs) |->
        mv(tick_trail(rotate(cs[k], held), t, new_trail_fuse(seed, k - 1))) ]

\* Kurve::tick_running on the game k at instant t: the game after it, the
\* winner it returns and the bit-set of its scan
tick_running(k, held, t, seed) ==
    LET p0 == tick_powermods(k.powers, k.bounds, t, seed)
        order == iter_order(k.curves)
        bits == scan(k.curves, k.bounds, order)
        mods == scan_powermods(k.curves, p0.powermods, order, 1)
        ex == expire_timeouts(k.curves, p0.power_timeouts, 1, t, seed)
        ap == apply_powermods(ex.curves, [p0 EXCEPT !.power_timeouts = ex.kept], mods, 1, t)
        cs == apply_collisions(ap.curves, bits)
        winner == check_winner(cs)
    IN IF ex.panic
       THEN [ k |-> [k EXCEPT !.panic = "timeout.curve out of range"],
              winner |-> None, collisions |-> bits ]
       ELSE [ k |-> [ k EXCEPT !.powers = ap.powers,
                               !.curves = IF winner # None THEN cs
                                          ELSE process_movement(cs, held, t, seed) ],
              winner |-> winner, collisions |-> bits ]

----------------------------------------------------------------------------
(* KurvePhase *)

Setup == [phase |-> "Setup", started |-> 0, id |-> None]

StartCountdown(t) == [phase |-> "StartCountdown", started |-> t, id |-> None]

Running == [phase |-> "Running", started |-> 0, id |-> None]

Paused == [phase |-> "Paused", started |-> 0, id |-> None]

Winner(t, id) == [phase |-> "Winner", started |-> t, id |-> id]

----------------------------------------------------------------------------
(* The setup menu.  A game k is the record of the fields of Kurve, with     *)
(* `panic` set once the program has panicked.                               *)

\* the keys `is_key_just_pressed` is asked about
KeyCodes == {"Space", "Escape", "Return", "Up", "Down", "Left", "Right"}

NoConfig == [id |-> None, name |-> "", color |-> 0, keys |-> 0, selected |-> "Name"]

PlayerCurveConfig(config) == [kind |-> "PlayerCurveConfig", config |-> config]

AddPlayer == [kind |-> "AddPlayer", config |-> NoConfig]

Start == [kind |-> "Start", config |-> NoConfig]

NoMod == [kind |-> "None", colors |-> << >>, selected |-> 0]

\* PlayerNameModifier { buf: String::new() }: no text is typed in the model
PlayerNameModifier == [kind |-> "Name", colors |-> << >>, selected |-> 0]

\* PlayerKeyModifier::new(): both keys are KeyCode::Asterisk, key 0 here
PlayerKeyModifier == [kind |-> "Keys", colors |-> << >>, selected |-> 0]

\* PlayerColorModifier::new(colors)
PlayerColorModifier(colors) == [kind |-> "Color", colors |-> colors, selected |-> 0]

PlayerName(id) == <<"Player 1", "Player 2", "Player 3", "Player 4", "Player 5", "Player 6">>[id + 1]

\* PlayerConfigFocus::next
focus_next(f) ==
    CASE f = "Name" -> "Keys" [] f = "Keys" -> "Color" [] f = "Color" -> "Remove"
      [] f = "Remove" -> "Name"

\* PlayerConfigFocus::previous
focus_previous(f) ==
    CASE f = "Name" -> "Remove" [] f = "Keys" -> "Name" [] f = "Color" -> "Keys"
      [] f = "Remove" -> "Color"

IsConfig(item) == item.kind = "PlayerCurveConfig"

\* Vec::remove(i), i counted from 0
RemoveAt(seq, i) == [ n \in 1 .. Len(seq) - 1 |-> IF n <= i THEN seq[n] ELSE seq[n + 1] ]

\* Vec::insert(i, e), i counted from 0
InsertAt(seq, i, e) ==
    [ n \in 1 .. Len(seq) + 1 |-> IF n <= i THEN seq[n] ELSE IF n = i + 1 THEN e ELSE seq[n - 1] ]

\* Vec::pop: the vector without its last element
Front(seq) == SubSeq(seq, 1, Len(seq) - 1)

\* KurveMenu::navigate
navigate(m, keys) ==
    LET turn(items, f(_)) ==
            [ n \in 1 .. Len(items) |->
                IF IsConfig(items[n])
                THEN [items[n] EXCEPT !.config.selected = f(@)]
                ELSE items[n] ]
        i1 == IF "Right" \in keys THEN turn(m.items, focus_next) ELSE m.items
        i2 == IF "Left" \in keys THEN turn(i1, focus_previous) ELSE i1
    IN [m EXCEPT !.items = i2]

\* KurveMenu::select_item for the selected player config: the action, or "None"
select_item(m) ==
    LET conf == m.items[m.selected + 1].config
    IN CASE conf.selected = "Name" -> [action |-> "Modifier", md |-> PlayerNameModifier]
         [] conf.selected = "Color" ->
               IF m.colors # << >>
               THEN [action |-> "Modifier", md |-> PlayerColorModifier(m.colors)]
               ELSE [action |-> "None", md |-> NoMod]
         [] conf.selected = "Keys" -> [action |-> "Modifier", md |-> PlayerKeyModifier]
         [] conf.selected = "Remove" -> [action |-> "RemovePlayer", md |-> NoMod]

\* KurveMenu::decrement_config_ids
decrement_config_ids(items, from) ==
    [ n \in 1 .. Len(items) |->
        IF n > from /\ IsConfig(items[n])
        THEN [items[n] EXCEPT !.config.id = Max2(@ - 1, 0)]
        ELSE items[n] ]

\* Player::new
Player_new(name, move_keys) == [score |-> 0, name |-> name, move_keys |-> move_keys]

\* PlayerConfig::to_player_curve_pair
to_player_curve_pair(config, b, alive, velocity, seed, t) ==
    [ player |-> Player_new(config.name, config.keys),
      curve |-> new_random_pos(config.id, b, config.keys, config.color, alive, velocity,
                               seed, t) ]

\* Kurve::paused
paused(k) == k.state.phase = "Paused"

\* Kurve::reset_curves
reset_curves(k, seed) ==
    [ k EXCEPT !.curves =
        [ n \in 1 .. Len(k.curves) |->
            LET pose == random_pose(k.bounds, seed, n - 1)
            IN [ k.curves[n] EXCEPT
                   !.position = Point(pose.x, pose.y),
                   !.alive = TRUE,
                   !.rotation = pose.rot,
                   !.lines = << >>,
                   !.trail_active = TRUE,
                   !.trail_fuse = new_trail_fuse(seed, n - 1),
                   !.velocity = DEFAULT_VELOCITY,
                   !.girth = DEFAULT_GIRTH,
                   !.rotation_speed = DEFAULT_ROTATION ] ] ]

\* Kurve::handle_add_player and Kurve::add_player
handle_add_player(k, seed, t) ==
    IF k.menu.colors = << >> \/ k.menu.keys = << >>
    THEN [k EXCEPT !.panic = "pop().unwrap() on an empty pool"]
    ELSE
    LET id == Len(k.players)
        config == [ id |-> id, name |-> PlayerName(id),
                    color |-> k.menu.colors[Len(k.menu.colors)],
                    keys |-> k.menu.keys[Len(k.menu.keys)],
                    selected |-> "Name" ]
        pair == to_player_curve_pair(config, k.bounds, ~paused(k),
                                     IF paused(k) THEN 0 ELSE DEFAULT_VELOCITY, seed, t)
        idx == Cardinality({ n \in 1 .. Len(k.menu.items) :
                               \A q \in 1 .. n : IsConfig(k.menu.items[q]) })
    IN [ k EXCEPT !.players = Append(@, pair.player),
                  !.curves = Append(@, pair.curve),
                  !.menu.colors = Front(@),
                  !.menu.keys = Front(@),
                  !.menu.items = InsertAt(@, idx, PlayerCurveConfig(config)),
                  !.menu.selected = @ + 1 ]

\* Kurve::extract_cfg_player_curve: the panic it ends in, or ""
extract_panic(k) ==
    IF k.menu.selected >= Len(k.menu.items) THEN "menu.items index out of range"
    ELSE IF ~IsConfig(k.menu.items[k.menu.selected + 1])
    THEN "modifier being applied to unsupported item"
    ELSE IF k.menu.items[k.menu.selected + 1].config.id >= Len(k.players)
    THEN "players index out of range"
    ELSE IF k.menu.items[k.menu.selected + 1].config.id >= Len(k.curves)
    THEN "curves index out of range"
    ELSE ""

\* PlayerConfig::apply on the selected config, once `config` has replaced it
config_apply(k, config) ==
    [ k EXCEPT !.menu.items[k.menu.selected + 1].config = config,
               !.players[config.id + 1].name = config.name,
               !.players[config.id + 1].move_keys = config.keys,
               !.curves[config.id + 1].move_keys = config.keys,
               !.curves[config.id + 1].color = config.color ]

\* an apply that leaves the game alone when the selected item is not a
\* player config
modifier_apply_lenient(k, md) ==
    IF extract_panic(k) # "" THEN k
    ELSE
    LET config == k.menu.items[k.menu.selected + 1].config
    IN CASE md.kind = "Name" -> config_apply(k, [config EXCEPT !.name = ""])
         [] md.kind = "Keys" -> config_apply(k, [config EXCEPT !.keys = 0])
         [] md.kind = "Color" ->
               config_apply(k, [config EXCEPT !.color = md.colors[md.selected + 1]])

\* PlayerConfigMod::apply of the three modifiers
modifier_apply(k, md) ==
    IF extract_panic(k) # "" THEN [k EXCEPT !.panic = extract_panic(k)]
    ELSE
    LET config == k.menu.items[k.menu.selected + 1].config
    IN CASE md.kind = "Name" -> config_apply(k, [config EXCEPT !.name = ""])
         [] md.kind = "Keys" -> config_apply(k, [config EXCEPT !.keys = 0])
         [] md.kind = "Color" ->
               \* the pool is searched for the colour the curve had, and that
               \* colour is taken out and put back where it was
               config_apply(k, [config EXCEPT !.color = md.colors[md.selected + 1]])

\* PlayerConfigMod::update of the three modifiers
modifier_update(md, keys) ==
    IF md.kind # "Color" THEN md
    ELSE LET s1 == IF "Left" \in keys
                   THEN IF md.selected = 0 THEN Len(md.colors) - 1 ELSE md.selected - 1
                   ELSE md.selected
             s2 == IF "Right" \in keys THEN (s1 + 1) % Len(md.colors) ELSE s1
         IN [md EXCEPT !.selected = s2]

\* a RemovePlayer arm that does not hand the keys of the player back
remove_player_keep_keys(k) ==
    LET config == k.menu.items[k.menu.selected + 1].config
    IN IF config.id >= Len(k.players) \/ config.id >= Len(k.curves)
       THEN [k EXCEPT !.panic = "removal index out of range"]
       ELSE LET curve == k.curves[config.id + 1]
            IN [ k EXCEPT
                   !.players = RemoveAt(@, config.id),
                   !.curves = RemoveAt(@, config.id),
                   !.menu.items = decrement_config_ids(RemoveAt(@, k.menu.selected),
                                                       k.menu.selected),
                   !.menu.colors = Append(@, curve.color),
                   !.menu.selected = Max2(@ - 1, 0) ]

\* the RemovePlayer arm of tick_setup_menu for the selected config
remove_player(k) ==
    LET config == k.menu.items[k.menu.selected + 1].config
    IN IF config.id >= Len(k.players) \/ config.id >= Len(k.curves)
       THEN [k EXCEPT !.panic = "removal index out of range"]
       ELSE LET curve == k.curves[config.id + 1]
            IN [ k EXCEPT
                   !.players = RemoveAt(@, config.id),
                   !.curves = RemoveAt(@, config.id),
                   !.menu.items = decrement_config_ids(RemoveAt(@, k.menu.selected),
                                                       k.menu.selected),
                   !.menu.colors = Append(@, curve.color),
                   !.menu.keys = Append(@, curve.move_keys),
                   !.menu.selected = Max2(@ - 1, 0) ]

\* a Start arm that leaves the bounds of the staging area
start_game_keep_bounds(k, t, sz, seed) ==
    LET k1 == reset_curves(k, seed)
    IN [ k1 EXCEPT !.powers = reset_powermods(@, t, seed),
                   !.state = StartCountdown(t),
                   !.menu.selected = 0 ]

\* the Start arm of tick_setup_menu
start_game(k, t, sz, seed) ==
    LET k1 == reset_curves([k EXCEPT !.bounds = running_bounds(sz)], seed)
    IN [ k1 EXCEPT !.powers = reset_powermods(@, t, seed),
                   !.state = StartCountdown(t),
                   !.menu.selected = 0 ]

\* a `Handle Enter` block whose AddPlayer arm does not look at the pool
handle_enter_unguarded(k, t, sz, seed) ==
    IF k.menu.selected >= Len(k.menu.items)
    THEN [k EXCEPT !.panic = "menu.items index out of range"]
    ELSE LET item == k.menu.items[k.menu.selected + 1]
         IN CASE item.kind = "PlayerCurveConfig" ->
                   LET action == select_item(k.menu)
                   IN IF action.action = "Modifier"
                      THEN [k EXCEPT !.menu.active_mod = action.md]
                      ELSE IF action.action = "RemovePlayer" THEN remove_player(k)
                      ELSE k
              [] item.kind = "AddPlayer" ->
                   LET k1 == handle_add_player(k, seed, t)
                   IN IF k1.panic # "" THEN k1
                      ELSE [ k1 EXCEPT !.menu.items =
                               [ n \in 1 .. Len(@) |->
                                   IF IsConfig(@[n])
                                   THEN [@[n] EXCEPT !.config.selected = "Name"]
                                   ELSE @[n] ] ]
              [] item.kind = "Start" -> start_game(k, t, sz, seed)

\* the `Handle Enter` block of tick_setup_menu
handle_enter(k, t, sz, seed) ==
    IF k.menu.selected >= Len(k.menu.items)
    THEN [k EXCEPT !.panic = "menu.items index out of range"]
    ELSE LET item == k.menu.items[k.menu.selected + 1]
         IN CASE item.kind = "PlayerCurveConfig" ->
                   LET action == select_item(k.menu)
                   IN IF action.action = "Modifier"
                      THEN [k EXCEPT !.menu.active_mod = action.md]
                      ELSE IF action.action = "RemovePlayer" THEN remove_player(k)
                      ELSE k
              [] item.kind = "AddPlayer" ->
                   IF k.menu.colors # << >>
                   THEN LET k1 == handle_add_player(k, seed, t)
                        IN [ k1 EXCEPT !.menu.items =
                               [ n \in 1 .. Len(@) |->
                                   IF IsConfig(@[n])
                                   THEN [@[n] EXCEPT !.config.selected = "Name"]
                                   ELSE @[n] ] ]
                   ELSE k
              [] item.kind = "Start" -> start_game(k, t, sz, seed)

\* the `Handle up/down navigation` block of tick_setup_menu
up_down(k, keys) ==
    LET s1 == IF "Up" \in keys
              THEN IF k.menu.selected = 0 THEN Len(k.menu.items) - 1 ELSE k.menu.selected - 1
              ELSE k.menu.selected
        s2 == IF "Down" \in keys THEN (s1 + 1) % Len(k.menu.items) ELSE s1
    IN [k EXCEPT !.menu.selected = s2]

\* Kurve::tick_setup_menu
tick_setup_menu(k, keys, t, sz, seed) ==
    LET k1 == IF k.menu.active_mod # NoMod /\ "Escape" \in keys
              THEN [k EXCEPT !.menu.active_mod = NoMod]
              ELSE k
    IN IF k1.menu.active_mod # NoMod /\ "Return" \in keys
       THEN modifier_apply([k1 EXCEPT !.menu.active_mod = NoMod], k1.menu.active_mod)
       ELSE IF k1.menu.active_mod # NoMod
       THEN [k1 EXCEPT !.menu.active_mod = modifier_update(@, keys)]
       ELSE LET k2 == [k1 EXCEPT !.menu = navigate(@, keys)]
                k3 == IF "Return" \in keys THEN handle_enter(k2, t, sz, seed) ELSE k2
            IN IF k3.panic # "" THEN k3 ELSE up_down(k3, keys)

\* check_border_axis_collision: "Min", "Max" or "None"
check_border_axis_collision(min, max, axis) ==
    LET bad == { n \in 1 .. 9 : axis[n] * PX < min \/ axis[n] * PX > max }
    IN IF bad = {} THEN "None"
       ELSE LET first == CHOOSE n \in bad : \A q \in bad : n <= q
            IN IF axis[first] * PX < min THEN "Min" ELSE "Max"

\* BoundingBox::xs and BoundingBox::ys
xs(bbox) == [ n \in 1 .. 9 |-> bbox[n].x ]

ys(bbox) == [ n \in 1 .. 9 |-> bbox[n].y ]

\* a loop body that eliminates the curve at the border, as a round does
setup_curve_eliminating(c, b, held, t, fuse) ==
    LET bbox == BoundingBox(next_pos(c), as_f32(c.girth))
        out == check_border_collision(b.x_min, b.x_max, b.y_min, b.y_max, bbox)
        c0 == IF out THEN [c EXCEPT !.alive = FALSE, !.velocity = 0] ELSE c
        c1 == mv(tick_trail(rotate(c0, held), t, fuse))
    IN IF Len(c1.lines) > 20 THEN [c1 EXCEPT !.lines = Tail(@)] ELSE c1

\* a loop body that drops the newest segment of a trail of more than 20
setup_curve_drop_newest(c, b, held, t, fuse) ==
    LET bbox == BoundingBox(next_pos(c), as_f32(c.girth))
        cx == check_border_axis_collision(b.x_min, b.x_max, xs(bbox))
        cy == check_border_axis_collision(b.y_min, b.y_max, ys(bbox))
        x1 == IF cx = "Min" THEN b.x_max ELSE IF cx = "Max" THEN b.x_min ELSE c.position.x
        y1 == IF cy = "Min" THEN b.y_max ELSE IF cy = "Max" THEN b.y_min ELSE c.position.y
        c1 == mv(tick_trail(rotate([c EXCEPT !.position = Point(x1, y1)], held), t, fuse))
    IN IF Len(c1.lines) > 20 THEN [c1 EXCEPT !.lines = Front(@)] ELSE c1

\* the body of the loop of tick_setup_curves for one curve
setup_curve(c, b, held, t, fuse) ==
    LET bbox == BoundingBox(next_pos(c), as_f32(c.girth))
        cx == check_border_axis_collision(b.x_min, b.x_max, xs(bbox))
        cy == check_border_axis_collision(b.y_min, b.y_max, ys(bbox))
        x1 == IF cx = "Min" THEN b.x_max ELSE IF cx = "Max" THEN b.x_min ELSE c.position.x
        y1 == IF cy = "Min" THEN b.y_max ELSE IF cy = "Max" THEN b.y_min ELSE c.position.y
        c1 == mv(tick_trail(rotate([c EXCEPT !.position = Point(x1, y1)], held), t, fuse))
    IN IF Len(c1.lines) > 20 THEN [c1 EXCEPT !.lines = Tail(@)] ELSE c1

\* Kurve::tick_setup_curves
tick_setup_curves(k, held, t, seed) ==
    [ k EXCEPT !.curves =
        [ n \in 1 .. Len(@) |->
            setup_curve(@[n], k.bounds, held, t, new_trail_fuse(seed, n - 1)) ] ]

\* a tick_winner that resets the power supply and the phase, not the curves
tick_winner_keep_curves(k, held, t, started, seed) ==
    LET k1 == [k EXCEPT !.curves = process_movement(@, held, t, seed)]
    IN IF t - started >= WINNER_GLOAT_DURATION
       THEN [ k1 EXCEPT !.powers = reset_powermods(@, t, seed),
                        !.state = StartCountdown(t) ]
       ELSE k1

\* Kurve::tick_winner
tick_winner(k, held, t, started, seed) ==
    LET k1 == [k EXCEPT !.curves = process_movement(@, held, t, seed)]
    IN IF t - started >= WINNER_GLOAT_DURATION
       THEN [ reset_curves(k1, seed) EXCEPT !.powers = reset_powermods(@, t, seed),
                                            !.state = StartCountdown(t) ]
       ELSE k1

\* a tick_countdown that leaves the trail timestamps as they are
tick_countdown_keep_ts(k, held, t, started) ==
    LET cs == [ n \in 1 .. Len(k.curves) |-> rotate(k.curves[n], held) ]
    IN IF t - started >= WINNER_GLOAT_DURATION
       THEN [k EXCEPT !.curves = cs, !.state = Running]
       ELSE [k EXCEPT !.curves = cs]

\* Kurve::tick_countdown
tick_countdown(k, held, t, started) ==
    LET cs == [ n \in 1 .. Len(k.curves) |-> rotate(k.curves[n], held) ]
    IN IF t - started >= WINNER_GLOAT_DURATION
       THEN [ k EXCEPT !.curves = [ n \in 1 .. Len(cs) |-> [cs[n] EXCEPT !.trail_ts = t] ],
                       !.state = Running ]
       ELSE [k EXCEPT !.curves = cs]

\* Kurve::tick_pause
tick_pause(k, keys, sz, seed) ==
    IF "Escape" \in keys
    THEN [ reset_curves(k, seed) EXCEPT !.bounds = setup_bounds(sz), !.state = Setup ]
    ELSE k

\* a toggle_pause that clears the trails when the game is resumed
toggle_pause_clear(k) ==
    CASE k.state.phase = "Running" -> [k EXCEPT !.state = Paused]
      [] k.state.phase = "Paused" ->
            [ k EXCEPT !.state = Running,
                       !.curves = [ n \in 1 .. Len(@) |-> [@[n] EXCEPT !.lines = << >>] ] ]
      [] OTHER -> k

\* Kurve::toggle_pause
toggle_pause(k) ==
    CASE k.state.phase = "Running" -> [k EXCEPT !.state = Paused]
      [] k.state.phase = "Paused" -> [k EXCEPT !.state = Running]
      [] OTHER -> k

\* the Running arm of Kurve::update
update_running(k, held, t, seed) ==
    LET r == tick_running(k, held, t, seed)
    IN IF r.k.panic # "" \/ r.winner = None THEN r.k
       ELSE IF r.winner >= Len(r.k.players)
       THEN [r.k EXCEPT !.state = Winner(t, r.winner), !.panic = "players index out of range"]
       ELSE [r.k EXCEPT !.state = Winner(t, r.winner), !.players[r.winner + 1].score = @ + 1]

----------------------------------------------------------------------------
(* Kurve::new and Kurve::update *)

\* the game as a record of the fields of Kurve
Game ==
    [ state |-> state, players |-> players, curves |-> curves, bounds |-> bounds,
      powers |-> powers, menu |-> menu, panic |-> panic ]

\* the drawable size of the window
DrawableSize == [w |-> 40 * PX, h |-> 60 * PX]

\* Kurve::new at instant t
Kurve_new(sz, seed, t) ==
    LET config1 == [id |-> 0, name |-> PlayerName(0), color |-> 5, keys |-> 5, selected |-> "Name"]
        config2 == [id |-> 1, name |-> PlayerName(1), color |-> 4, keys |-> 4, selected |-> "Name"]
        b == setup_bounds(sz)
        pair1 == to_player_curve_pair(config1, b, TRUE, DEFAULT_VELOCITY, seed, t)
        pair2 == to_player_curve_pair(config2, b, TRUE, DEFAULT_VELOCITY, seed, t)
    IN [ bounds |-> b,
         curves |-> <<pair1.curve, pair2.curve>>,
         players |-> <<pair1.player, pair2.player>>,
         state |-> Setup,
         menu |-> [ items |-> <<PlayerCurveConfig(config1), PlayerCurveConfig(config2),
                                AddPlayer, Start>>,
                    selected |-> 3,
                    colors |-> <<1, 2, 3>>,
                    keys |-> <<1, 2, 3>>,
                    active_mod |-> NoMod ],
         powers |-> [ powermods |-> {}, power_timeouts |-> << >>, power_fuse |-> DurationMax,
                      last_powermod |-> t, last_id |-> 0 ],
         panic |-> "" ]

\* the state of the game after the `toggle_pause` of Kurve::update
toggled(k, keys) == IF "Space" \in keys THEN toggle_pause(k) ELSE k

\* the inputs of one update: the keys just pressed, the direction of the held
\* move keys, and the sample vector of the random draws
Inputs ==
    { in \in [ keys : {{}} \cup { {c} : c \in KeyCodes },
               held : {"none", "cw", "ccw"},
               seed : 1 .. NSeeds ] :
        in.held = "none" \/ in.keys = {} }

\* the variables take the fields of the game k after an update at instant t
Becomes(k, t, arm, bits, ret) ==
    /\ state' = k.state
    /\ players' = k.players
    /\ curves' = k.curves
    /\ bounds' = k.bounds
    /\ powers' = k.powers
    /\ menu' = k.menu
    /\ panic' = k.panic
    /\ now' = t
    /\ handler' = arm
    /\ collisions' = bits
    /\ returned' = ret
    /\ supply' = powers
    /\ UNCHANGED size

CanUpdate == panic = "" /\ now < MaxNow

\* Kurve::update, arm KurvePhase::Setup
UpdateSetup(in) ==
    /\ CanUpdate
    /\ now < MaxSetup
    /\ toggled(Game, in.keys).state.phase = "Setup"
    /\ LET t == now + 1
           k1 == tick_setup_menu(toggled(Game, in.keys), in.keys, t, size, in.seed)
           k2 == IF k1.panic # "" THEN k1 ELSE tick_setup_curves(k1, in.held, t, in.seed)
       IN Becomes(k2, t, "Setup", 0, returned)

\* Kurve::update, arm KurvePhase::Running
UpdateRunning(in) ==
    /\ CanUpdate
    /\ toggled(Game, in.keys).state.phase = "Running"
    /\ LET t == now + 1
           k1 == toggled(Game, in.keys)
           r == tick_running(k1, in.held, t, in.seed)
       IN Becomes(update_running(k1, in.held, t, in.seed), t, "Running", r.collisions,
                  r.winner)

\* Kurve::update, arm KurvePhase::StartCountdown
UpdateStartCountdown(in) ==
    /\ CanUpdate
    /\ toggled(Game, in.keys).state.phase = "StartCountdown"
    /\ LET t == now + 1
       IN Becomes(tick_countdown(Game, in.held, t, state.started), t, "StartCountdown", 0,
                  returned)

\* Kurve::update, arm KurvePhase::Winner
UpdateWinner(in) ==
    /\ CanUpdate
    /\ toggled(Game, in.keys).state.phase = "Winner"
    /\ LET t == now + 1
       IN Becomes(tick_winner(Game, in.held, t, state.started, in.seed), t, "Winner", 0,
                  returned)

\* Kurve::update, arm KurvePhase::Paused
UpdatePaused(in) ==
    /\ CanUpdate
    /\ toggled(Game, in.keys).state.phase = "Paused"
    /\ LET t == now + 1
           k1 == tick_setup_menu(toggled(Game, in.keys), in.keys, t, size, in.seed)
           k2 == IF k1.panic # "" THEN k1 ELSE tick_pause(k1, in.keys, size, in.seed)
       IN Becomes(k2, t, "Paused", 0, returned)

Init ==
    /\ now = 0
    /\ size = DrawableSize
    /\ handler = "new"
    /\ collisions = 0
    /\ returned = None
    /\ \E seed \in 1 .. NSeeds :
          LET k == Kurve_new(size, seed, 0)
          IN /\ state = k.state
             /\ players = k.players
             /\ curves = k.curves
             /\ bounds = k.bounds
             /\ powers = k.powers
             /\ supply = k.powers
             /\ menu = k.menu
             /\ panic = k.panic

Next ==
    \/ \E in \in Inputs : UpdateSetup(in)
    \/ \E in \in Inputs : UpdateRunning(in)
    \/ \E in \in Inputs : UpdateStartCountdown(in)
    \/ \E in \in Inputs : UpdateWinner(in)
    \/ \E in \in Inputs : UpdatePaused(in)

Spec == Init /\ [][Next]_vars

----------------------------------------------------------------------------
(* Kurve::check_winner on its own: SpecWinner draws the curves and calls it *)

\* the vectors of curves SpecWinner draws have at most MaxCurves curves
MaxCurves == 4

\* the strictly increasing sequence of the numbers of S
Ascending(S) ==
    CHOOSE f \in [1 .. Cardinality(S) -> S] : \A a, b \in 1 .. Cardinality(S) : a < b => f[a] < f[b]

\* the curves of the players `ids` left on the roster, those of `dead`
\* eliminated, as to_player_curve_pair makes them and the Apply collisions
\* loop leaves them
RosterCurves(ids, dead) ==
    [ n \in 1 .. Cardinality(ids) |->
        LET id == Ascending(ids)[n]
        IN new_random_pos(id, running_bounds(DrawableSize), id, id, id \notin dead,
                          IF id \in dead THEN 0 ELSE DEFAULT_VELOCITY, 1, 0) ]

InitWinner ==
    /\ now = 0
    /\ size = DrawableSize
    /\ handler = "new"
    /\ collisions = 0
    /\ returned = None
    /\ panic = ""
    /\ state = Running
    /\ bounds = running_bounds(DrawableSize)
    /\ powers = Kurve_new(DrawableSize, 1, 0).powers
    /\ supply = powers
    /\ menu = Kurve_new(DrawableSize, 1, 0).menu
    /\ \E ids \in SUBSET (0 .. MaxCurves) :
          /\ Cardinality(ids) <= MaxCurves
          /\ \E dead \in SUBSET ids :
                /\ curves = RosterCurves(ids, dead)
                /\ players = [ n \in 1 .. Cardinality(ids) |->
                                 Player_new(PlayerName(Ascending(ids)[n]), Ascending(ids)[n]) ]

\* the call `self.check_winner()` of tick_running
CheckWinner ==
    /\ handler = "new"
    /\ handler' = "check_winner"
    /\ returned' = check_winner(curves)
    /\ UNCHANGED <<state, players, curves, bounds, powers, menu, now, size, panic, collisions,
                   supply>>

NextWinner == CheckWinner

SpecWinner == InitWinner /\ [][NextWinner]_vars

----------------------------------------------------------------------------
(* The trail check on long trails: SpecTrail draws a Running game in which  *)
(* curve 0 has gone east, turned south, turned west and now runs back       *)
(* beside its own trail, and takes Running ticks from there.                *)

\* the third leg of the path has at most MaxLeg segments
MaxLeg == 45

\* a window wide enough for the path
TrailSize == [w |-> 400 * PX, h |-> 100 * PX]

\* the girths a curve can have in a round: rounds start at DEFAULT_GIRTH and
\* Chungus is the only kind of pickup that is spawned
TrailGirths == DEFAULT_GIRTH .. GirthMax

\* the length of the second leg: the rows of the first and the third leg are
\* as far apart as the box of the curve reaches
SouthLeg(g) == as_usize(g)

\* the length of the first leg: the box on the third leg stays beside it
EastLeg(g, s) == s + 2 * as_usize(g) + 2

\* the place, in pixels, the curve is in after k steps of the path
PathPoint(g, s, k) ==
    LET x0 == 140
        y0 == 40
        a == EastLeg(g, s)
        b == SouthLeg(g)
    IN IF k <= a THEN Point((x0 + k) * PX, y0 * PX)
       ELSE IF k <= a + b THEN Point((x0 + a) * PX, (y0 + k - a) * PX)
       ELSE Point((x0 + a - (k - a - b)) * PX, (y0 + b) * PX)

\* curve 0 after n steps on the third leg of the path laid out for s: every
\* step of the path has appended its segment, as tick_trail and mv do
PathCurve(g, s, n, t) ==
    LET steps == EastLeg(g, s) + SouthLeg(g) + n
        c == new_random_pos(0, running_bounds(TrailSize), 5, 5, TRUE, DEFAULT_VELOCITY, 2, t)
    IN [ c EXCEPT !.position = PathPoint(g, s, steps),
                  !.rotation = 2,
                  !.girth = g,
                  !.lines = [ k \in 1 .. steps |->
                                interpolate(PathPoint(g, s, k - 1), PathPoint(g, s, k), g) ] ]

\* curve 1: far from curve 0, or coming from the south onto the segment
\* curve 0 has just laid
OtherCurve(g, s, near, t) ==
    LET last == PathPoint(g, s, EastLeg(g, s) + SouthLeg(g) + s - 1)
        c == new_random_pos(1, running_bounds(TrailSize), 4, 4, TRUE, DEFAULT_VELOCITY, 2, t)
        p == IF near THEN Point(last.x, last.y + 3 * PX) ELSE Point(last.x, last.y + 20 * PX)
    IN [ c EXCEPT !.position = p,
                  !.rotation = 3,
                  !.lines = << interpolate(Point(p.x, p.y + PX), p, c.girth) >> ]

InitTrail ==
    /\ now = MaxNow - 1
    /\ size = TrailSize
    /\ handler = "new"
    /\ collisions = 0
    /\ returned = None
    /\ panic = ""
    /\ state = Running
    /\ bounds = running_bounds(TrailSize)
    /\ powers = reset_powermods(Kurve_new(TrailSize, 1, 0).powers, now, 1)
    /\ supply = powers
    /\ menu = [Kurve_new(TrailSize, 1, 0).menu EXCEPT !.selected = 0]
    /\ players = Kurve_new(TrailSize, 1, 0).players
    /\ \E g \in TrailGirths, s \in 1 .. MaxLeg, near \in BOOLEAN :
          \* the curve has met no segment on its way along the third leg
          /\ \A n \in 1 .. s - 1 : ~trail_collision(<<PathCurve(g, s, n, now)>>, 0)
          /\ curves = << PathCurve(g, s, s, now), OtherCurve(g, s, near, now) >>

NextTrail == \E in \in Inputs : UpdateRunning(in)

SpecTrail == InitTrail /\ [][NextTrail]_vars

----------------------------------------------------------------------------
(* PowerModifier::apply and remove, Girth::increment and decrement on their *)
(* own: SpecPower draws a curve and a copy of it that nothing touches, lets *)
(* the first collect one pickup of any kind and lets that timeout expire,   *)
(* or steps its girth up any number of times, or down.                      *)

\* the velocities drawn: of an eliminated curve, of one slowed down to VELO,
\* and of a round's start
PowerVelocities == {0, VELO, DEFAULT_VELOCITY}

\* the rotation speeds drawn
PowerRotations == {DEFAULT_ROTATION, DEFAULT_ROTATION + ROTUP}

\* a curve with the given values of the fields the modifiers touch
PowerCurve(id, v, r, g, active, t) ==
    LET c == new_random_pos(id, running_bounds(DrawableSize), 5 - id, 5 - id, v # 0, v, 5, t)
    IN [c EXCEPT !.rotation_speed = r, !.girth = g, !.trail_active = active]

InitPower ==
    /\ now = 0
    /\ size = DrawableSize
    /\ handler = "new"
    /\ collisions = 0
    /\ returned = None
    /\ panic = ""
    /\ state = Running
    /\ bounds = running_bounds(DrawableSize)
    /\ powers = reset_powermods(Kurve_new(DrawableSize, 1, 0).powers, 0, 1)
    /\ supply = powers
    /\ menu = [Kurve_new(DrawableSize, 1, 0).menu EXCEPT !.selected = 0]
    /\ players = Kurve_new(DrawableSize, 1, 0).players
    /\ \E v \in PowerVelocities, r \in PowerRotations, g \in Girths, active \in BOOLEAN :
          curves = << PowerCurve(0, v, r, g, active, 0), PowerCurve(1, v, r, g, active, 0) >>

\* the `Apply powermods` loop of tick_running for one pickup of kind ty that
\* curve 0 touched
ApplyPowermod(ty) ==
    /\ handler = "new"
    /\ LET ap == apply_powermods(curves, powers, << [curve |-> 0, power |-> 0, ty |-> ty] >>,
                                 1, now + 1)
       IN /\ curves' = ap.curves
          /\ powers' = ap.powers
    /\ now' = now + 1
    /\ handler' = "apply"
    /\ supply' = powers
    /\ UNCHANGED <<state, players, bounds, menu, size, panic, collisions, returned>>

\* the `Remove pending powermods` retain of tick_running at the instant the
\* timeout expires
RemovePowermod(seed) ==
    /\ handler = "apply"
    /\ LET t == powers.power_timeouts[1].started + POWERMOD_DURATION
           ex == expire_timeouts(curves, powers.power_timeouts, 1, t, seed)
       IN /\ curves' = ex.curves
          /\ powers' = [powers EXCEPT !.power_timeouts = ex.kept]
          /\ now' = t
    /\ handler' = "remove"
    /\ supply' = powers
    /\ UNCHANGED <<state, players, bounds, menu, size, panic, collisions, returned>>

\* `curve.girth = curve.girth.increment()`
Increment ==
    /\ handler \in {"new", "increment"}
    /\ curves' = [curves EXCEPT ![1].girth = increment(@)]
    /\ handler' = "increment"
    /\ UNCHANGED <<state, players, bounds, powers, menu, now, size, panic, collisions, returned,
                   supply>>

\* `curve.girth = curve.girth.decrement()`
Decrement ==
    /\ handler \in {"new", "decrement"}
    /\ curves' = [curves EXCEPT ![1].girth = decrement(@)]
    /\ handler' = "decrement"
    /\ UNCHANGED <<state, players, bounds, powers, menu, now, size, panic, collisions, returned,
                   supply>>

NextPower ==
    \/ \E ty \in PowerModifiers : ApplyPowermod(ty)
    \/ \E seed \in 1 .. NSeeds : RemovePowermod(seed)
    \/ Increment
    \/ Decrement

SpecPower == InitPower /\ [][NextPower]_vars

----------------------------------------------------------------------------
(* The setup menu on its own: SpecMenu starts from Kurve::new early enough  *)
(* for MaxMenu updates of the Setup phase.  No move key is held, and the    *)
(* random draws are those of the first sample, but for the pose and the    *)
(* fuse of a curve that is added.                                          *)

\* the number of updates SpecMenu gives the setup menu
MaxMenu == 6

\* the inputs of the updates of SpecMenu
MenuInputs == { in \in Inputs : in.held = "none" /\ in.seed = 1 }

InitMenu ==
    /\ now = MaxSetup - MaxMenu
    /\ size = DrawableSize
    /\ handler = "new"
    /\ collisions = 0
    /\ returned = None
    /\ \E seed \in 1 .. NSeeds :
          LET k == Kurve_new(size, seed, now)
          IN /\ state = k.state
             /\ players = k.players
             /\ curves = k.curves
             /\ bounds = k.bounds
             /\ powers = k.powers
             /\ supply = k.powers
             /\ menu = k.menu
             /\ panic = k.panic

\* Kurve::update, arm KurvePhase::Setup, when Return is pressed on the
\* AddPlayer item
SelectAddPlayer(seed) ==
    /\ CanUpdate
    /\ now < MaxSetup
    /\ state.phase = "Setup"
    /\ menu.active_mod = NoMod
    /\ menu.items[menu.selected + 1] = AddPlayer
    /\ LET t == now + 1
           k1 == tick_setup_menu(Game, {"Return"}, t, size, seed)
           k2 == IF k1.panic # "" THEN k1 ELSE tick_setup_curves(k1, "none", t, seed)
       IN Becomes(k2, t, "Setup, AddPlayer", 0, returned)

NextMenu ==
    \/ \E in \in MenuInputs : UpdateSetup(in)
    \/ \E seed \in 1 .. NSeeds : SelectAddPlayer(seed)

SpecMenu == InitMenu /\ [][NextMenu]_vars

----------------------------------------------------------------------------
(* Line::interpolate on its own: SpecLine draws an origin and a target on   *)
(* whole pixels, as the positions of curve 0 and of curve 1, and            *)
(* interpolates from the one to the other.                                  *)

\* the target is at most MaxSpan pixels from the origin on each axis
MaxSpan == 3

\* the origins drawn, in pixels: in each quadrant the rounding can differ
LineOrigins == {Point(0, 0), Point(14, 16), Point(-2, -3), Point(-1, 2)}

\* a curve at the pixel p
LineCurve(id, p) ==
    [ new_random_pos(id, running_bounds(DrawableSize), 5 - id, 5 - id, TRUE,
                     DEFAULT_VELOCITY, 1, 0)
        EXCEPT !.position = Point(p.x * PX, p.y * PX) ]

InitLine ==
    /\ now = 0
    /\ size = DrawableSize
    /\ handler = "new"
    /\ collisions = 0
    /\ returned = None
    /\ panic = ""
    /\ state = Running
    /\ bounds = running_bounds(DrawableSize)
    /\ powers = reset_powermods(Kurve_new(DrawableSize, 1, 0).powers, 0, 1)
    /\ supply = powers
    /\ menu = [Kurve_new(DrawableSize, 1, 0).menu EXCEPT !.selected = 0]
    /\ players = Kurve_new(DrawableSize, 1, 0).players
    /\ \E o \in LineOrigins, d_x \in -MaxSpan .. MaxSpan, d_y \in -MaxSpan .. MaxSpan :
          curves = << LineCurve(0, o), LineCurve(1, Point(o.x + d_x, o.y + d_y)) >>

\* `self.lines.push(Line::interpolate(origin, target, self.girth))`
Interpolate ==
    /\ handler = "new"
    /\ curves' = [ curves EXCEPT ![1].lines =
                     Append(@, interpolate(curves[1].position, curves[2].position,
                                           curves[1].girth)) ]
    /\ handler' = "interpolate"
    /\ UNCHANGED <<state, players, bounds, powers, menu, now, size, panic, collisions, returned,
                   supply>>

NextLine == Interpolate

SpecLine == InitLine /\ [][NextLine]_vars

----------------------------------------------------------------------------
(* A round of three players: SpecRound starts from the update in which a    *)
(* third player has been added and Start has been selected, early enough    *)
(* for MaxRound updates, and presses no key from there.                     *)

\* the number of updates SpecRound gives the round
MaxRound == 6

\* the Setup arm of Kurve::update on the game k
update_setup(k, keys, held, t, sz, seed) ==
    LET k1 == tick_setup_menu(k, keys, t, sz, seed)
    IN IF k1.panic # "" THEN k1 ELSE tick_setup_curves(k1, held, t, seed)

\* the game after Kurve::new at instant t and four updates of the Setup
\* phase: Up (to AddPlayer), Return (a third player), Down (to Start), and
\* Return, which draws the sample `seed`; a set of one game
RoundStart(sz, seed, t) ==
    { update_setup(k3, {"Return"}, "none", t + 4, sz, seed) :
        k3 \in { update_setup(k2, {"Down"}, "none", t + 3, sz, 1) :
                   k2 \in { update_setup(k1, {"Return"}, "none", t + 2, sz, 1) :
                              k1 \in { update_setup(k0, {"Up"}, "none", t + 1, sz, 1) :
                                         k0 \in {Kurve_new(sz, 1, t)} } } } }

\* the inputs of the updates of SpecRound
RoundInputs == { in \in Inputs : in.keys = {} }

InitRound ==
    /\ now = MaxNow - MaxRound
    /\ size = DrawableSize
    /\ handler = "Setup"
    /\ collisions = 0
    /\ returned = None
    /\ \E seed \in 1 .. NSeeds :
          \E k \in RoundStart(size, seed, now - 4) :
             /\ state = k.state
             /\ players = k.players
             /\ curves = k.curves
             /\ bounds = k.bounds
             /\ powers = k.powers
             /\ supply = k.powers
             /\ menu = k.menu
             /\ panic = k.panic

NextRound ==
    \/ \E in \in RoundInputs : UpdateStartCountdown(in)
    \/ \E in \in RoundInputs : UpdateRunning(in)
    \/ \E in \in RoundInputs : UpdateWinner(in)

SpecRound == InitRound /\ [][NextRound]_vars

----------------------------------------------------------------------------
(* A round of three players in a build that spawns Invulnerability:         *)
(* SpecInvulnerable is SpecRound with the last line of POWERMODS, which the *)
(* source has commented out, put back.                                      *)

\* POWERMODS with `PowerModifier::Invulnerability` uncommented
POWERMODS_invulnerable == <<"Chungus", "Invulnerability">>

\* PowerSupply::tick_powermods drawing the kind from `table`: the pickup it
\* spawns, if any, is of the kind table[r]
tick_powermods_of(table, p, b, t, seed) ==
    LET p1 == tick_powermods(p, b, t, seed)
    IN [ p1 EXCEPT !.powermods =
           { IF q \in p.powermods THEN q ELSE [q EXCEPT !.ty = table[(seed % Len(table)) + 1]] :
               q \in @ } ]

\* Kurve::update, arm KurvePhase::Running, in that build: tick_powermods has
\* run when tick_running calls it, and does nothing the second time
UpdateRunningInvulnerable(in) ==
    /\ CanUpdate
    /\ toggled(Game, in.keys).state.phase = "Running"
    /\ LET t == now + 1
           k0 == toggled(Game, in.keys)
           k1 == [k0 EXCEPT !.powers = tick_powermods_of(POWERMODS_invulnerable, @, k0.bounds,
                                                         t, in.seed)]
           r == tick_running(k1, in.held, t, in.seed)
       IN Becomes(update_running(k1, in.held, t, in.seed), t, "Running", r.collisions,
                  r.winner)

NextInvulnerable ==
    \/ \E in \in RoundInputs : UpdateStartCountdown(in)
    \/ \E in \in RoundInputs : UpdateRunningInvulnerable(in)
    \/ \E in \in RoundInputs : UpdateWinner(in)

SpecInvulnerable == InitRound /\ [][NextInvulnerable]_vars

----------------------------------------------------------------------------
(* A round of three players that can be paused: SpecTimeout starts like     *)
(* SpecRound, early enough for MaxTimeout updates, and lets Space be        *)
(* pressed, so that a timeout can come of age while the game is paused.     *)

\* the number of updates SpecTimeout gives the round
MaxTimeout == 7

\* the inputs of the updates of SpecTimeout: no move key held, Space or no key
TimeoutInputs == { in \in Inputs : in.held = "none" /\ in.keys \subseteq {"Space"} }

InitTimeout ==
    /\ now = MaxNow - MaxTimeout
    /\ size = DrawableSize
    /\ handler = "Setup"
    /\ collisions = 0
    /\ returned = None
    /\ \E seed \in 1 .. NSeeds :
          \E k \in RoundStart(size, seed, now - 4) :
             /\ state = k.state
             /\ players = k.players
             /\ curves = k.curves
             /\ bounds = k.bounds
             /\ powers = k.powers
             /\ supply = k.powers
             /\ menu = k.menu
             /\ panic = k.panic

NextTimeout ==
    \/ \E in \in TimeoutInputs : UpdateStartCountdown(in)
    \/ \E in \in TimeoutInputs : UpdateRunning(in)
    \/ \E in \in TimeoutInputs : UpdateWinner(in)
    \/ \E in \in TimeoutInputs : UpdatePaused(in)

SpecTimeout == InitTimeout /\ [][NextTimeout]_vars

----------------------------------------------------------------------------
(* PowerSupply on its own: SpecSupply starts from a reset power supply and  *)
(* calls tick_powermods frame after frame, long enough for the spawned set  *)
(* to fill; pickups are taken out of the set and the supply is reset at any *)
(* time.                                                                    *)

\* the number of frames SpecSupply runs for
MaxSupply == 36

\* the id counter stops here: no pickup is spawned at last_id = MaxSpawn
MaxSpawn == 12

\* the samples drawn in SpecSupply: both put the pickup on the first row, the
\* fuses they draw differ
SupplySeeds == {1, 4}

InitSupply ==
    /\ now = 0
    /\ size = DrawableSize
    /\ handler = "new"
    /\ collisions = 0
    /\ returned = None
    /\ panic = ""
    /\ state = Running
    /\ bounds = running_bounds(DrawableSize)
    /\ \E seed \in SupplySeeds :
          powers = reset_powermods(Kurve_new(DrawableSize, 1, 0).powers, 0, seed)
    /\ supply = powers
    /\ menu = [Kurve_new(DrawableSize, 1, 0).menu EXCEPT !.selected = 0]
    /\ players = Kurve_new(DrawableSize, 1, 0).players
    /\ curves = Kurve_new(DrawableSize, 1, 0).curves

\* `self.powers.tick_powermods(self.bounds)` of tick_running, one frame on
TickPowermods(seed) ==
    /\ now < MaxSupply
    /\ powers.last_id < MaxSpawn
    /\ powers' = tick_powermods(powers, bounds, now + 1, seed)
    /\ now' = now + 1
    /\ handler' = "tick_powermods"
    /\ supply' = powers
    /\ UNCHANGED <<state, players, curves, bounds, menu, size, panic, collisions, returned>>

\* `self.powers.powermods.remove(&power)` of the Apply powermods loop, for
\* the oldest pickup of the set or for the newest
TakePowermod(id) ==
    /\ \E q \in powers.powermods : q.id = id
    /\ \/ \A q \in powers.powermods : id <= q.id
       \/ \A q \in powers.powermods : id >= q.id
    /\ powers' = [powers EXCEPT !.powermods = { q \in @ : q.id # id }]
    /\ handler' = "remove"
    /\ supply' = powers
    /\ UNCHANGED <<state, players, curves, bounds, menu, now, size, panic, collisions, returned>>

\* `self.powers.reset_powermods()`
ResetPowermods(seed) ==
    /\ handler # "reset_powermods"
    /\ powers' = reset_powermods(powers, now, seed)
    /\ handler' = "reset_powermods"
    /\ supply' = powers
    /\ UNCHANGED <<state, players, curves, bounds, menu, now, size, panic, collisions, returned>>

NextSupply ==
    \/ \E seed \in SupplySeeds : TickPowermods(seed)
    \/ \E id \in 0 .. MaxSpawn : TakePowermod(id)
    \/ \E seed \in SupplySeeds : ResetPowermods(seed)

SpecSupply == InitSupply /\ [][NextSupply]_vars

----------------------------------------------------------------------------
(* The countdown and the winner's display over several frames: SpecPhases   *)
(* is SpecRound with a clock whose unit is longer than a frame while the    *)
(* phase is StartCountdown or Winner, so that Instant::now() can read the   *)
(* same in two successive updates and WINNER_GLOAT_DURATION has not elapsed *)
(* at the first update of the phase.  Every key may be pressed in these two *)
(* phases.                                                                  *)

\* the readings of the clock at an update, counted from the last one
Elapsed == {0, 1}

\* Kurve::update, arm KurvePhase::StartCountdown, dt after the last update
UpdateStartCountdownWithin(in, dt) ==
    /\ CanUpdate
    /\ toggled(Game, in.keys).state.phase = "StartCountdown"
    /\ LET t == now + dt
       IN Becomes(tick_countdown(toggled(Game, in.keys), in.held, t, state.started), t,
                  "StartCountdown", 0, returned)

\* Kurve::update, arm KurvePhase::Winner, dt after the last update; the clock
\* reads the same at most once, right after the Running tick that declared
\* the winner
UpdateWinnerWithin(in, dt) ==
    /\ CanUpdate
    /\ toggled(Game, in.keys).state.phase = "Winner"
    /\ dt = 0 => handler = "Running"
    /\ LET t == now + dt
       IN Becomes(tick_winner(toggled(Game, in.keys), in.held, t, state.started, in.seed), t,
                  "Winner", 0, returned)

NextPhases ==
    \/ \E in \in Inputs, dt \in Elapsed : UpdateStartCountdownWithin(in, dt)
    \/ \E in \in RoundInputs : UpdateRunning(in)
    \/ \E in \in Inputs, dt \in Elapsed : UpdateWinnerWithin(in, dt)

SpecPhases == InitRound /\ [][NextPhases]_vars

----------------------------------------------------------------------------
(* The staging area left to itself: SpecStaging runs the Setup phase from   *)
(* Kurve::new for MaxStaging updates in which no key is pressed and no move *)
(* key is held, so that the curves lay more segments than their trails keep.*)

\* the number of updates SpecStaging gives the staging area
MaxStaging == 40

\* the inputs of the updates of SpecStaging: the fuses drawn are 2 for both
\* curves, or 3 for the one and 2 for the other
StagingInputs == { in \in Inputs : in.keys = {} /\ in.held = "none" /\ in.seed \in {1, 3} }

InitStaging ==
    /\ now = MaxSetup - MaxStaging
    /\ size = DrawableSize
    /\ handler = "new"
    /\ collisions = 0
    /\ returned = None
    /\ \E seed \in 1 .. NSeeds :
          LET k == Kurve_new(size, seed, now)
          IN /\ state = k.state
             /\ players = k.players
             /\ curves = k.curves
             /\ bounds = k.bounds
             /\ powers = k.powers
             /\ supply = k.powers
             /\ menu = k.menu
             /\ panic = k.panic

NextStaging == \E in \in StagingInputs : UpdateSetup(in)

SpecStaging == InitStaging /\ [][NextStaging]_vars

----------------------------------------------------------------------------
(* The roster edited in the pause: SpecBench starts a round of two players  *)
(* at once and gives it MaxBench updates; no move key is held, and the keys *)
(* pressed are those that pause and resume the round and that remove and    *)
(* add players in the pause menu.                                           *)

\* the number of updates SpecBench takes
MaxBench == 10

\* the inputs of the updates of SpecBench
BenchInputs ==
    { in \in Inputs : /\ in.held = "none"
                      /\ in.keys \in {{}, {"Space"}, {"Left"}, {"Down"}, {"Return"}}
                      /\ in.seed \in {1, 2} }

InitBench ==
    /\ now = MaxNow - MaxBench
    /\ size = DrawableSize
    /\ handler = "new"
    /\ collisions = 0
    /\ returned = None
    /\ \E seed \in 1 .. NSeeds :
          LET k == Kurve_new(size, seed, now)
          IN /\ state = k.state
             /\ players = k.players
             /\ curves = k.curves
             /\ bounds = k.bounds
             /\ powers = k.powers
             /\ supply = k.powers
             /\ menu = k.menu
             /\ panic = k.panic

\* Return alone, on the Start item the cursor is on after Kurve::new
BenchStart == { in \in BenchInputs : in.keys = {"Return"} }

\* no key
BenchIdle == { in \in BenchInputs : in.keys = {} }

NextBench ==
    \/ \E in \in BenchStart : UpdateSetup(in)
    \/ \E in \in BenchIdle : UpdateStartCountdown(in)
    \/ \E in \in BenchInputs : UpdateRunning(in)
    \/ \E in \in BenchIdle : UpdateWinner(in)
    \/ \E in \in BenchInputs : UpdatePaused(in)

SpecBench == InitBench /\ [][NextBench]_vars

----------------------------------------------------------------------------
(* Properties of the Running tick, checked under Spec *)

\* the step is an update that took the Running arm and did not panic
RunningTick == handler' = "Running" /\ panic' = ""

\* the indices of the living curves of cs
AliveSet(cs) == { i \in 1 .. Len(cs) : cs[i].alive }

\* the orders in which n curves can be visited
Orders(n) == { f \in [1 .. n -> 0 .. n - 1] : \A a, b \in 1 .. n : a # b => f[a] # f[b] }

\* C1: in a Running tick every living curve whose collision bit the scan set
\* ends the tick with alive = FALSE and velocity 0, whatever other bits are
\* set, and a living curve whose bit is not set stays alive
C1_SetBitEliminates ==
    [][RunningTick =>
         \A i \in 1 .. Len(curves) :
            curves[i].alive =>
               IF Bit(collisions', i - 1)
               THEN ~curves'[i].alive /\ curves'[i].velocity = 0
               ELSE curves'[i].alive]_vars

\* C2: the curves a Running tick leaves alive are the ones it would leave
\* alive had the scan visited the curves in any other order
C2_ScanOrderIrrelevant ==
    [][RunningTick =>
         \A order \in Orders(Len(curves)) :
            \A i \in 1 .. Len(curves) :
               curves'[i].alive =
                  apply_collisions(curves, scan(curves, bounds, order))[i].alive]_vars

\* a Running tick in which the scan set the bits of two curves
C2_TwoCollideAtOnce == handler = "Running" /\ panic = "" /\ collisions = 3

\* C3: if every curve alive at the start of a Running tick collides in that
\* tick, all of them are eliminated, no winner is declared, the phase stays
\* Running and no score changes
C3_AllCollideNoWinner ==
    [][( /\ RunningTick
         /\ AliveSet(curves) # {}
         /\ \A i \in AliveSet(curves) : Bit(collisions', i - 1) ) =>
            /\ AliveSet(curves') = {}
            /\ returned' = None
            /\ state'.phase = "Running"
            /\ players' = players]_vars

\* C4: check_winner returns a winner if and only if exactly one curve is
\* alive, and then the player index that curve carries; with no living curve
\* and with two or more it returns no winner
C4_WinnerIffOneAlive ==
    handler = "check_winner" =>
       IF Cardinality(AliveSet(curves)) = 1
       THEN returned = curves[CHOOSE i \in AliveSet(curves) : TRUE].player_id
       ELSE returned = None

\* check_winner has been called on [alive, dead, dead] and returned 0
C4_OneOfThreeAlive ==
    /\ handler = "check_winner"
    /\ Len(curves) = 3
    /\ AliveSet(curves) = {1}
    /\ returned = 0

\* C5: a Running tick after which exactly one curve is alive enters Winner
\* with the index of the player owning that curve and adds 1 to that player's
\* score and to no other; no other update changes a score
C5_WinnerScored ==
    [][ /\ (handler' = "Running" /\ Cardinality(AliveSet(curves')) = 1) =>
              LET w == CHOOSE i \in AliveSet(curves') : TRUE
              IN /\ panic' = ""
                 /\ state'.phase = "Winner"
                 /\ state'.id = w - 1
                 /\ Len(players') = Len(players)
                 /\ \A p \in 1 .. Len(players) :
                       players'[p].score = players[p].score + (IF p = w THEN 1 ELSE 0)
        /\ (~(handler' = "Running" /\ state'.phase = "Winner")
              /\ Len(players') = Len(players)) =>
              \A p \in 1 .. Len(players) : players'[p].score = players[p].score ]_vars

\* C6: Paused is entered only from Running, and the phase that follows Paused
\* is Running or Setup, never StartCountdown or Winner
C6_PausedTransitions ==
    [][ /\ (state'.phase = "Paused" /\ state.phase # "Paused") => state.phase = "Running"
        /\ state.phase = "Paused" => state'.phase \in {"Paused", "Running", "Setup"} ]_vars

\* C7: in a Running tick a living curve with active trail is eliminated if a
\* sample point of its next bounding box is strictly outside the arena, and
\* the border check does not eliminate it if all nine are inside or on the
\* boundary
C7_BorderEliminates ==
    [][RunningTick =>
         \A i \in 1 .. Len(curves) :
            (curves[i].alive /\ curves[i].trail_active) =>
               LET out == check_border_collision(bounds.x_min, bounds.x_max, bounds.y_min,
                                                 bounds.y_max, scan_bbox(curves, i - 1))
               IN /\ out => ~curves'[i].alive
                  /\ (~out /\ ~trail_collision(curves, i - 1)) => curves'[i].alive]_vars

\* the box the scan tests for curve i has a sample point of segment n of
\* curve j among its nine points
SamePoint(i, j, n) ==
    \E q \in 1 .. Len(curves[j].lines[n].points), a \in 1 .. 9 :
        scan_bbox(curves, i - 1)[a] = curves[j].lines[n].points[q]

\* the trail check of a Running tick for the curves it reaches, with the
\* window of curve i being its last window[girth] segments: it marks curve i
\* only for a segment outside the window or of another curve, it marks it for
\* an own segment outside the window that shares a point with its box, and
\* for any such segment of another curve
GraceWindow(window) ==
    RunningTick =>
       \A i \in 1 .. Len(curves) :
          LET own == Len(curves[i].lines)
              old == own - window[curves[i].girth]
              reached ==
                 /\ curves[i].trail_active
                 /\ ~check_border_collision(bounds.x_min, bounds.x_max, bounds.y_min,
                                            bounds.y_max, scan_bbox(curves, i - 1))
          IN reached =>
               /\ Bit(collisions', i - 1) =>
                     \E j \in 1 .. Len(curves) :
                        \E n \in 1 .. Len(curves[j].lines) :
                           /\ j = i => n <= old
                           /\ check_bbox_colision(scan_bbox(curves, i - 1),
                                                  curves[j].lines[n])
               /\ (\E n \in 1 .. own : n <= old /\ SamePoint(i, i, n)) =>
                     Bit(collisions', i - 1)
               /\ (\E j \in 1 .. Len(curves) \ {i} :
                      \E n \in 1 .. Len(curves[j].lines) : SamePoint(i, j, n)) =>
                     Bit(collisions', i - 1)

\* the window of a girth by its place L in the enumeration
LevelWindow == [ g \in Girths |-> 15 * Max2(g - 1, 0) ]

\* the window of a girth by its width w in whole pixels
WidthWindow == [ g \in Girths |-> 15 * Max2(as_usize(g) - 1, 0) ]

\* C8 (as the claim states it): a curve of girth level L does not collide
\* with its own most recent 15 * max(L - 1, 0) segments, collides with an
\* older own segment that shares a point with its bounding box, and other
\* curves' segments are never excluded
C8_GraceByLevel == [][GraceWindow(LevelWindow)]_vars

\* C8 (amended): the same with the window 15 * max(w - 1, 0), w the width
\* of the girth in whole pixels (2, 4, 6, 8 for Normal to Chungus)
C8_GraceByWidth == [][GraceWindow(WidthWindow)]_vars

\* a Running tick has marked a Large curve that had more than 45 segments
\* and was inside the arena
C8_LargeMeetsOldSegment ==
    /\ handler = "Running"
    /\ Bit(collisions, 0)
    /\ curves[1].girth = 3
    /\ Len(curves[1].lines) > 45

\* C9: a curve whose trail_active is FALSE when a Running tick scans it is
\* alive after that tick if it was alive before
C9_InvulnerableSurvives ==
    [][handler' = "Running" =>
         \A i \in 1 .. Len(curves) :
            (curves[i].alive /\ ~curves[i].trail_active) => curves'[i].alive]_vars

\* a Running tick has moved a living curve with inactive trail to a place
\* where its bounding box crosses the border
C9_InvulnerableOutside ==
    /\ handler = "Running"
    /\ panic = ""
    /\ \E i \in 1 .. Len(curves) :
          /\ curves[i].alive
          /\ ~curves[i].trail_active
          /\ check_border_collision(bounds.x_min, bounds.x_max, bounds.y_min, bounds.y_max,
                                    BoundingBox(curves[i].position, as_f32(curves[i].girth)))

\* the step is an update that ran tick_trail for every curve and left the
\* trails it found
TrailTicked ==
    \/ RunningTick /\ returned' = None
    \/ handler' = "Winner" /\ state'.phase = "Winner"
    \/ /\ handler' = "Setup" /\ state'.phase = "Setup" /\ panic' = ""
       /\ Len(curves') = Len(curves)
       /\ \A i \in 1 .. Len(curves) : Len(curves[i].lines) < 20

\* a segment was appended to the trail of curve i in the step
Appended(i) == Len(curves'[i].lines) = Len(curves[i].lines) + 1

\* C10 (as the claim states it): a tick that runs tick_trail appends a
\* segment if and only if trail_active was TRUE at the start of the tick
C10_AppendsIffActiveAtStart ==
    [][TrailTicked =>
         \A i \in 1 .. Len(curves) : Appended(i) <=> curves[i].trail_active]_vars

\* C10 (amended): a tick that runs tick_trail appends a segment if and only
\* if trail_active is TRUE once the two timer checks of tick_trail have run,
\* which is the value the tick leaves
C10_AppendsIffActiveAfterTimers ==
    [][TrailTicked =>
         \A i \in 1 .. Len(curves) : Appended(i) <=> curves'[i].trail_active]_vars

\* a Running tick in which the fuse of a curve expired: the trail was
\* switched off at this instant and the curve has laid segments before
C10_FuseExpiryTick ==
    /\ handler = "Running"
    /\ panic = ""
    /\ returned = None
    /\ \E i \in 1 .. Len(curves) :
          ~curves[i].trail_active /\ curves[i].trail_ts = now /\ curves[i].lines # << >>

----------------------------------------------------------------------------
(* Properties of the power-ups *)

\* the fields of a curve the modifiers touch
Touched(c) ==
    [ velocity |-> c.velocity, rotation_speed |-> c.rotation_speed, girth |-> c.girth,
      trail_active |-> c.trail_active ]

\* C11: for every kind of modifier and every starting value of velocity,
\* rotation speed, girth and trail state, the curve that collected a pickup
\* has, once the timeout has removed the effect, the values of the copy that
\* collected nothing
C11_RemoveRestores ==
    handler = "remove" => Touched(curves[1]) = Touched(curves[2])

\* the timeouts of the power supply p that were created at instant t
FreshTimeouts(p, t) ==
    { n \in 1 .. Len(p.power_timeouts) : p.power_timeouts[n].started = t }

\* the number of pickups a step took out of the spawned set: those there
\* before and the one spawned in the step, less those left
Collected ==
    Cardinality(powers.powermods) + (powers'.last_id - powers.last_id)
       - Cardinality(powers'.powermods)

\* C12: a Running tick leaves no pickup in the spawned set that the next
\* bounding box of a curve touched in that tick, and it creates exactly one
\* timeout for each pickup it took out of the set, however many curves
\* touched that pickup
C12_OneTimeoutPerPickup ==
    [][RunningTick =>
         /\ \A q \in powers'.powermods :
               \A i \in 1 .. Len(curves) : ~touches(scan_bbox(curves, i - 1), q)
         /\ Cardinality(FreshTimeouts(powers', now')) = Collected]_vars

\* C13: an increment from the maximum level gives the maximum level and a
\* decrement from the minimum level gives the minimum level, any number of
\* times; from every other level an increment gives the next level and a
\* decrement the previous one, in the order Tiny < Small < Normal < Large <
\* Larger < Chungus, which is also the order of their widths
C13_GirthSaturates ==
    [][ /\ handler' = "increment" =>
              LET g == curves[1].girth
                  g1 == curves'[1].girth
              IN IF g = GirthMax THEN g1 = GirthMax
                 ELSE g1 = g + 1 /\ as_f32(g1) > as_f32(g)
        /\ handler' = "decrement" =>
              LET g == curves[1].girth
                  g1 == curves'[1].girth
              IN IF g = GirthMin THEN g1 = GirthMin
                 ELSE g1 = g - 1 /\ as_f32(g1) < as_f32(g) ]_vars

\* a curve that started at the maximum level has been incremented, once or
\* more, and nothing else has been done to it
C13_IncrementedAtMax ==
    /\ handler = "increment"
    /\ curves[2].girth = GirthMax
    /\ curves[1].girth = GirthMax

\* the step is an update that called reset_powermods: the Start item of the
\* menu, or the end of the winner's display
ResetStep == state'.phase = "StartCountdown" /\ state'.started = now' /\ panic' = ""

\* C14: after an update that called reset_powermods the spawned set and the
\* timeouts are empty, the id counter is 0, the fuse is a value of
\* MIN_POWERMOD_FUSE .. MAX_POWERMOD_FUSE - 1 counted from this instant, and
\* no discarded timeout was reversed: every curve has the girth, velocity and
\* rotation speed reset_curves gave it
C14_ResetEmpties ==
    [][ResetStep =>
         /\ powers'.powermods = {}
         /\ powers'.power_timeouts = << >>
         /\ powers'.last_id = 0
         /\ powers'.power_fuse \in MIN_POWERMOD_FUSE .. MAX_POWERMOD_FUSE - 1
         /\ powers'.last_powermod = now'
         /\ \A i \in 1 .. Len(curves') :
               /\ curves'[i].girth = DEFAULT_GIRTH
               /\ curves'[i].velocity = DEFAULT_VELOCITY
               /\ curves'[i].rotation_speed = DEFAULT_ROTATION]_vars

\* the winner's display has ended in a reset that discarded a pending timeout
C14_TimeoutsDiscarded ==
    /\ handler = "Winner"
    /\ state.phase = "StartCountdown"
    /\ supply.power_timeouts # << >>
    /\ powers.power_timeouts = << >>

----------------------------------------------------------------------------
(* Properties of the roster and of the setup menu *)

\* C15: players and curves have the same length and the curve at index i has
\* player_id = i, whatever players were added and removed
C15_IdsAreIndices ==
    /\ Len(players) = Len(curves)
    /\ \A i \in 1 .. Len(curves) : curves[i].player_id = i - 1

\* who the curves of cs belong to, and their colours and keys
Roster(cs) ==
    [ i \in 1 .. Len(cs) |->
        [player_id |-> cs[i].player_id, color |-> cs[i].color, move_keys |-> cs[i].move_keys] ]

\* C16: Return on the AddPlayer item while the colour pool is empty changes
\* nothing: the players, the roster of curves, the menu (its items, its
\* selected index, both pools) and the phase are as before, and the program
\* has not panicked
C16_AddPlayerNoOp ==
    [][(handler' = "Setup, AddPlayer" /\ menu.colors = << >>) =>
         /\ players' = players
         /\ Roster(curves') = Roster(curves)
         /\ menu' = menu
         /\ state' = state
         /\ panic' = ""]_vars

\* Return was pressed on the AddPlayer item when the pool had already been
\* empty: the last curve was added in an earlier update
C16_ReturnOnEmptyPool ==
    /\ handler = "Setup, AddPlayer"
    /\ menu.colors = << >>
    /\ curves[Len(curves)].trail_ts < now

\* the three modifiers select_item can activate
Modifiers == {PlayerNameModifier, PlayerKeyModifier, PlayerColorModifier(<<1>>)}

----------------------------------------------------------------------------
(* Properties of the geometry kernel *)

\* the pixel a curve is on
Pixel(c) == Point(c.position.x \div PX, c.position.y \div PX)

\* C18: for an origin and a target on whole pixels the segment has
\* max(|dx|, |dy|, 1) points; the first is the origin; point k is the
\* sample origin + (k - 1) * (dx, dy) / max rounded to the nearest whole
\* pixel on each axis, so that it advances by one pixel per point along the
\* dominant axis; and with origin = target the segment is the single point
\* origin
C18_InterpolateCount ==
    handler = "interpolate" =>
       LET o == Pixel(curves[1])
           tg == Pixel(curves[2])
           d_x == tg.x - o.x
           d_y == tg.y - o.y
           n == Max2(Max2(Abs(d_x), Abs(d_y)), 1)
           points == curves[1].lines[1].points
       IN /\ Len(points) = n
          /\ points[1] = o
          /\ \A k \in 1 .. n :
                /\ 2 * Abs(points[k].x * n - (o.x * n + (k - 1) * d_x)) <= n
                /\ 2 * Abs(points[k].y * n - (o.y * n + (k - 1) * d_y)) <= n
                /\ Abs(d_x) = n => Abs(points[k].x - o.x) = k - 1
                /\ Abs(d_y) = n => Abs(points[k].y - o.y) = k - 1
          /\ o = tg => points = << o >>

\* a segment has been interpolated from a pixel to itself
C18_OriginIsTarget ==
    /\ handler = "interpolate"
    /\ curves[1].position = curves[2].position
    /\ Len(curves[1].lines[1].points) = 1

----------------------------------------------------------------------------
(* Properties of eliminated curves *)

\* the step called reset_curves: the Start item of the menu, the end of the
\* winner's display, or Escape in the pause menu
RoundReset ==
    \/ state'.phase = "StartCountdown" /\ state'.started = now'
    \/ state'.phase = "Setup"

\* the step is an update within a round that left the roster as it was
WithinRound == Roster(curves') = Roster(curves) /\ ~RoundReset

\* C19: a curve that is not alive is, after any update within the round,
\* still not alive, has velocity 0 and is where it was, whatever pickups it
\* collected and whatever timeouts of it expired in that update
C19_EliminatedStays ==
    [][WithinRound =>
         \A i \in 1 .. Len(curves) :
            (~curves[i].alive /\ curves[i].velocity = 0) =>
               /\ ~curves'[i].alive
               /\ curves'[i].velocity = 0
               /\ curves'[i].position = curves[i].position]_vars

\* an eliminated curve has collected a pickup: it has been still for two
\* ticks, and a timeout of this instant is for it
C19_DeadCurveCollects ==
    /\ handler = "Running"
    /\ panic = ""
    /\ \E i \in 1 .. Len(curves) :
          /\ ~curves[i].alive
          /\ curves[i].velocity = 0
          /\ \E n \in FreshTimeouts(powers, now) : powers.power_timeouts[n].curve = i - 1
          /\ Len(curves[i].lines) >= 2
          /\ curves[i].lines[Len(curves[i].lines)] = curves[i].lines[Len(curves[i].lines) - 1]

\* C20: the trail of a curve that is not alive after an update within the
\* round, be it eliminated in that update or earlier, is the trail it had
\* before the update: no segment appended, none removed
C20_DeadTrailStatic ==
    [][WithinRound =>
         \A i \in 1 .. Len(curves) :
            ~curves'[i].alive => curves'[i].lines = curves[i].lines]_vars

----------------------------------------------------------------------------
(* Properties of the Running tick, checked in rounds of three players *)

\* the step eliminated curve i
Eliminated(i) == curves[i].alive /\ ~curves'[i].alive

\* C21: a curve that a Running tick eliminates is, at the end of that tick,
\* where it was at its start: the position the scan tested is not committed
C21_EliminatedNotMoved ==
    [][handler' = "Running" =>
         \A i \in 1 .. Len(curves) :
            Eliminated(i) => curves'[i].position = curves[i].position]_vars

\* a Running tick has eliminated a curve and returned no winner, so that its
\* Process movement loop ran: the curve is eliminated, its bit is the highest
\* of the scan, and the segment tick_trail appended at the place it stands on
\* is the first one there
C21_EliminatedThisTick ==
    /\ handler = "Running"
    /\ panic = ""
    /\ returned = None
    /\ \E i \in 1 .. Len(curves) :
          LET n == Len(curves[i].lines)
          IN /\ ~curves[i].alive
             /\ hit(collisions, i - 1)
             /\ n >= 2
             /\ curves[i].lines[n].points = << Point(Round(curves[i].position.x),
                                                     Round(curves[i].position.y)) >>
             /\ curves[i].lines[n - 1] # curves[i].lines[n]

\* C22: a curve that is not alive when a Running tick begins collects no
\* pickup in it: no timeout of that tick is for it, the tick leaves its girth
\* as it was, and a pickup only it touched stays in the spawned set
C22_DeadCollectsNothing ==
    [][RunningTick =>
         \A i \in 1 .. Len(curves) :
            ~curves[i].alive =>
               /\ \A n \in FreshTimeouts(powers', now') :
                     powers'.power_timeouts[n].curve # i - 1
               /\ curves'[i].girth = curves[i].girth
               /\ \A q \in powers.powermods :
                     ( /\ touches(scan_bbox(curves, i - 1), q)
                       /\ \A j \in 1 .. Len(curves) \ {i} :
                             ~touches(scan_bbox(curves, j - 1), q) )
                        => q \in powers'.powermods]_vars

----------------------------------------------------------------------------
(* Properties of the timeouts *)

\* the curves of the pending timeouts of kind ty, as indices of `curves`
Pending(ty) ==
    { powers.power_timeouts[n].curve + 1 :
        n \in { m \in 1 .. Len(powers.power_timeouts) : powers.power_timeouts[m].ty = ty } }

Due(touts, t) == { n \in 1 .. Len(touts) : t - touts[n].started >= POWERMOD_DURATION }

\* the girths of the curves cs
GirthsOf(cs) == [ i \in 1 .. Len(cs) |-> cs[i].girth ]

\* C24: a Running tick removes the timeouts that are at least
\* POWERMOD_DURATION old, keeps the younger ones in their order and puts the
\* ones it creates behind them; it reverses each removed one once and no
\* other, which for the kind that is spawned is one step down in girth for
\* each removed entry of the curve (before the step up for each pickup it
\* collects in that tick); and an update of another phase that neither
\* resets the round nor edits the roster leaves the timeouts and the girths
\* alone
C24_ExpiredOnceWhenDue ==
    [][ /\ RunningTick =>
              LET old == powers.power_timeouts
                  new == powers'.power_timeouts
                  kept == SelectSeq(old, LAMBDA e : now' - e.started < POWERMOD_DURATION)
              IN /\ Len(new) >= Len(kept)
                 /\ SubSeq(new, 1, Len(kept)) = kept
                 /\ \A n \in Len(kept) + 1 .. Len(new) : new[n].started = now'
                 /\ \A i \in 1 .. Len(curves) :
                       LET e == Cardinality({ n \in Due(old, now') : old[n].curve = i - 1 })
                           f == Cardinality({ n \in FreshTimeouts(powers', now') :
                                                new[n].curve = i - 1 })
                           down == Max2(curves[i].girth - e, GirthMin)
                       IN curves'[i].girth = (IF down + f > GirthMax THEN GirthMax ELSE down + f)
        /\ (handler' # "Running" /\ WithinRound) =>
              /\ powers'.power_timeouts = powers.power_timeouts
              /\ GirthsOf(curves') = GirthsOf(curves) ]_vars

\* a Running tick has removed a timeout that came of age while the game was
\* paused: the power supply it found had an entry older than
\* POWERMOD_DURATION, which is gone
C24_ExpiredAfterPause ==
    /\ handler = "Running"
    /\ panic = ""
    /\ \E n \in 1 .. Len(supply.power_timeouts) :
          /\ now - supply.power_timeouts[n].started > POWERMOD_DURATION
          /\ \A m \in 1 .. Len(powers.power_timeouts) :
                powers.power_timeouts[m] # supply.power_timeouts[n]

----------------------------------------------------------------------------
(* Properties of the power supply *)

\* the ids of the pickups of the power supply p
Ids(p) == { q.id : q \in p.powermods }

\* the spawned set holds at most 10 pickups, no two of the same id, and
\* every id is smaller than the id counter
SupplyInv ==
    /\ Cardinality(powers.powermods) <= 10
    /\ Cardinality(Ids(powers)) = Cardinality(powers.powermods)
    /\ \A id \in Ids(powers) : id < powers.last_id

\* a step that is not a reset gives the pickup it puts in the set, if any, the
\* value of the id counter, which is greater than every id given since the
\* last reset, and moves the counter up by one for it; a reset empties the
\* set and puts the counter back to 0
IdsIncrease ==
    IF handler' = "reset_powermods"
    THEN powers'.powermods = {} /\ powers'.last_id = 0
    ELSE /\ Ids(powers') \ Ids(powers) \subseteq {powers.last_id}
         /\ powers'.last_id = powers.last_id + Cardinality(Ids(powers') \ Ids(powers))

\* C25: in every reachable state the spawned set holds at most 10 pickups,
\* each with an id of its own that is smaller than the id counter, and ids
\* are given in strictly increasing order between two resets
C25_SupplyCapAndIds == []SupplyInv /\ [][IdsIncrease]_vars

\* tick_powermods found the fuse elapsed and the set full: it spawned
\* nothing and drew a new fuse
C25_FullSetNoSpawn ==
    /\ handler = "tick_powermods"
    /\ Cardinality(supply.powermods) = 10
    /\ powers.last_powermod = now
    /\ powers.powermods = supply.powermods
    /\ powers.last_id = supply.last_id

----------------------------------------------------------------------------
(* Properties of the countdown and of the winner's display *)

\* the curve c without its heading and its trail timestamp
Still(c) == [c EXCEPT !.rotation = 0, !.trail_ts = 0]

\* C26: an update in StartCountdown takes the StartCountdown arm whatever
\* key is pressed and changes no position and no trail, nothing of a curve
\* but its heading and, on the transition, its trail timestamp; the phase
\* after it is Running only if WINNER_GLOAT_DURATION, the duration of the
\* countdown, has elapsed since the phase started, and then every trail
\* timestamp is this instant; otherwise the phase and the timestamps are as
\* before
C26_CountdownStill ==
    [][state.phase = "StartCountdown" =>
         /\ handler' = "StartCountdown"
         /\ Len(curves') = Len(curves)
         /\ \A i \in 1 .. Len(curves) : Still(curves'[i]) = Still(curves[i])
         /\ IF state'.phase = "Running"
            THEN /\ now' - state.started >= WINNER_GLOAT_DURATION
                 /\ \A i \in 1 .. Len(curves) : curves'[i].trail_ts = now'
            ELSE /\ state' = state
                 /\ \A i \in 1 .. Len(curves) : curves'[i].trail_ts = curves[i].trail_ts]_vars

\* an update of the countdown came before the duration had elapsed and
\* turned curve 0: the phase is still StartCountdown and the curve, whose
\* poses all head east or west, heads north or south
C26_CountdownGoesOn ==
    /\ handler = "StartCountdown"
    /\ state.phase = "StartCountdown"
    /\ now - state.started < WINNER_GLOAT_DURATION
    /\ curves[1].rotation \in {1, 3}

\* the alive flags of the curves cs
AliveOf(cs) == [ i \in 1 .. Len(cs) |-> cs[i].alive ]

\* the scores of the players ps
ScoresOf(ps) == [ i \in 1 .. Len(ps) |-> ps[i].score ]

\* C27: an update in Winner takes the Winner arm whatever key is pressed and
\* changes no score; before WINNER_GLOAT_DURATION has elapsed since the
\* phase started it leaves the phase and the alive flags as they are; at the
\* first update at which it has elapsed all curves are reset, the power
\* supply is reset and the phase is StartCountdown, started at this instant
C27_GloatThenCountdown ==
    [][state.phase = "Winner" =>
         /\ handler' = "Winner"
         /\ panic' = ""
         /\ ScoresOf(players') = ScoresOf(players)
         /\ IF now' - state.started >= WINNER_GLOAT_DURATION
            THEN /\ state' = StartCountdown(now')
                 /\ Len(curves') = Len(curves)
                 /\ \A i \in 1 .. Len(curves') :
                       /\ curves'[i].alive
                       /\ curves'[i].lines = << >>
                       /\ curves'[i].trail_active
                       /\ curves'[i].velocity = DEFAULT_VELOCITY
                       /\ curves'[i].girth = DEFAULT_GIRTH
                       /\ curves'[i].rotation_speed = DEFAULT_ROTATION
                 /\ powers'.powermods = {}
                 /\ powers'.power_timeouts = << >>
                 /\ powers'.last_id = 0
                 /\ powers'.last_powermod = now'
            ELSE /\ state' = state
                 /\ AliveOf(curves') = AliveOf(curves)]_vars

\* an update of the winner's display came before the duration had elapsed:
\* the phase is still Winner, one curve is alive and has moved on
C27_GloatGoesOn ==
    /\ handler = "Winner"
    /\ state.phase = "Winner"
    /\ now - state.started < WINNER_GLOAT_DURATION
    /\ Cardinality(AliveSet(curves)) = 1

----------------------------------------------------------------------------
(* Properties of the round reset *)

\* the step is an update that called reset_curves: the Start item of the
\* menu, the end of the winner's display, or Escape in the pause menu
ResetCurvesStep ==
    /\ panic' = ""
    /\ \/ state'.phase = "StartCountdown" /\ state'.started = now'
       \/ handler' = "Paused" /\ state'.phase = "Setup"

\* C28: after an update that reset the round every curve is alive, has an
\* empty trail and an active trail, and the default velocity, girth and
\* rotation speed
C28_ResetCurvesDefaults ==
    [][ResetCurvesStep =>
         \A i \in 1 .. Len(curves') :
            /\ curves'[i].alive
            /\ curves'[i].lines = << >>
            /\ curves'[i].trail_active
            /\ curves'[i].velocity = DEFAULT_VELOCITY
            /\ curves'[i].girth = DEFAULT_GIRTH
            /\ curves'[i].rotation_speed = DEFAULT_ROTATION]_vars

\* Return is pressed with the cursor on the Start item and no modifier active
StartCommand(keys) ==
    /\ "Return" \in keys
    /\ menu.active_mod = NoMod
    /\ menu.selected < Len(menu.items)
    /\ menu.items[menu.selected + 1] = Start

\* C29: in Setup, whatever keys are pressed and held in an update, the phase
\* after it is Setup unless Return was pressed on the Start item; Space
\* does not pause; and the update of the start command ends in
\* StartCountdown, started at that instant, with the bounds of the play
\* rectangle, an empty power supply with id counter 0, the roster as it
\* was and every curve reset: alive, with the default velocity, girth and
\* rotation speed, inside the play rectangle, with no segment of the trail
\* it had
C29_SetupLeftByStart ==
    (state.phase = "Setup" /\ panic = "") =>
       \A in \in Inputs :
          LET k0 == toggled(Game, in.keys)
              k2 == update_setup(k0, in.keys, in.held, now + 1, size, in.seed)
              play == running_bounds(size)
          IN /\ k0.state.phase = "Setup"
             /\ k2.state.phase # "Setup" <=> StartCommand(in.keys)
             /\ StartCommand(in.keys) =>
                   /\ k2.panic = ""
                   /\ k2.state = StartCountdown(now + 1)
                   /\ k2.bounds = play
                   /\ k2.powers.powermods = {}
                   /\ k2.powers.power_timeouts = << >>
                   /\ k2.powers.last_id = 0
                   /\ k2.powers.last_powermod = now + 1
                   /\ k2.players = players
                   /\ Roster(k2.curves) = Roster(curves)
                   /\ \A i \in 1 .. Len(k2.curves) :
                         /\ k2.curves[i].alive
                         /\ k2.curves[i].velocity = DEFAULT_VELOCITY
                         /\ k2.curves[i].girth = DEFAULT_GIRTH
                         /\ k2.curves[i].rotation_speed = DEFAULT_ROTATION
                         /\ k2.curves[i].position.x \in play.x_min .. play.x_max
                         /\ k2.curves[i].position.y \in play.y_min .. play.y_max
                         /\ Len(k2.curves[i].lines) <= 1

\* the start command has been given after a third player was added: the
\* update of the Setup arm has ended in StartCountdown and in the play
\* rectangle
C29_StartedWithThree ==
    /\ handler = "Setup"
    /\ panic = ""
    /\ state = StartCountdown(now)
    /\ bounds = running_bounds(size)
    /\ Len(curves) = 3

----------------------------------------------------------------------------
(* Properties of the pause *)

\* C30: an update that ends in Paused, be it the one that pauses the game or
\* one of the Paused arm, and that edits no roster, changes no field of a
\* curve, no pickup, no timeout, nothing of the power supply, and no score;
\* and the update in which the pause is toggled again is a Running tick on
\* the very curves, power supply and players the pause has kept: the toggle
\* itself changes the phase and nothing else
C30_PauseFreezes ==
    [][ /\ ( /\ handler' = "Paused"
             /\ state'.phase = "Paused"
             /\ panic' = ""
             /\ Roster(curves') = Roster(curves)
             /\ Len(players') = Len(players) ) =>
              /\ curves' = curves
              /\ powers' = powers
              /\ ScoresOf(players') = ScoresOf(players)
        /\ (state.phase = "Paused" /\ handler' = "Running") =>
              \E seed \in 1 .. NSeeds :
                 LET k1 == update_running([Game EXCEPT !.state = Running], "none", now', seed)
                 IN /\ curves' = k1.curves
                    /\ powers' = k1.powers
                    /\ players' = k1.players
                    /\ state' = k1.state
                    /\ panic' = k1.panic ]_vars

\* a game has been paused, the cursor of the menu has been moved in the
\* pause, and the game has been resumed: a Running tick has run with the
\* cursor off the item a round starts on
C30_ResumedAfterPause ==
    /\ handler = "Running"
    /\ panic = ""
    /\ menu.selected # 0
    /\ \E i \in 1 .. Len(curves) : curves[i].alive /\ curves[i].lines # << >>

----------------------------------------------------------------------------
(* Properties of the cancelled round *)

\* the point p lies in the rectangle b, its edges included
Inside(b, p) ==
    /\ b.x_min <= p.x /\ p.x <= b.x_max
    /\ b.y_min <= p.y /\ p.y <= b.y_max

\* C31: the update that leaves Paused for Setup (Escape in the pause) sets
\* the bounds of the staging rectangle and resets every curve, and puts
\* every curve inside the bounds that hold after it
C31_CancelInsideStaging ==
    [][(state.phase = "Paused" /\ state'.phase = "Setup" /\ panic' = "") =>
         /\ bounds' = setup_bounds(size)
         /\ \A i \in 1 .. Len(curves') :
               /\ curves'[i].alive
               /\ curves'[i].lines = << >>
               /\ curves'[i].velocity = DEFAULT_VELOCITY
               /\ curves'[i].girth = DEFAULT_GIRTH
               /\ Inside(bounds', curves'[i].position)]_vars

----------------------------------------------------------------------------
(* Properties of the staging area *)

\* a point of the bounding box, given by its coordinates on one axis in
\* pixels, lies below min, or above max
CrossesMin(min, axis) == \E n \in 1 .. 9 : axis[n] * PX < min

CrossesMax(max, axis) == \E n \in 1 .. 9 : axis[n] * PX > max

\* where the curve c stood on the two axes before the mv of its tick
BeforeMv(c) ==
    Point(c.position.x - c.velocity * Cos(c.rotation),
          c.position.y - c.velocity * Sin(c.rotation))

\* the curve `old` has become `new` in a tick of the staging area with bounds
\* b: it is alive, and on each axis it has taken its step from the maximum
\* edge if its next bounding box crossed the minimum edge, from the minimum
\* edge if it crossed the maximum edge, and from where it stood otherwise
Wrapped(old, new, b) ==
    LET bbox == BoundingBox(next_pos(old), as_f32(old.girth))
        from == BeforeMv(new)
    IN /\ new.alive
       /\ (CrossesMin(b.x_min, xs(bbox)) /\ ~CrossesMax(b.x_max, xs(bbox))) => from.x = b.x_max
       /\ (CrossesMax(b.x_max, xs(bbox)) /\ ~CrossesMin(b.x_min, xs(bbox))) => from.x = b.x_min
       /\ (~CrossesMax(b.x_max, xs(bbox)) /\ ~CrossesMin(b.x_min, xs(bbox))) =>
             from.x = old.position.x
       /\ (CrossesMin(b.y_min, ys(bbox)) /\ ~CrossesMax(b.y_max, ys(bbox))) => from.y = b.y_max
       /\ (CrossesMax(b.y_max, ys(bbox)) /\ ~CrossesMin(b.y_min, ys(bbox))) => from.y = b.y_min
       /\ (~CrossesMax(b.y_max, ys(bbox)) /\ ~CrossesMin(b.y_min, ys(bbox))) =>
             from.y = old.position.y

\* C32: in every state of the Setup phase every curve is alive, and whatever
\* the input of the next update, if the update stays in Setup then its
\* tick_setup_curves leaves every curve alive and moves a curve whose next
\* bounding box crosses an edge of the bounds from the opposite edge
C32_SetupWrapsAround ==
    (state.phase = "Setup" /\ panic = "") =>
       /\ \A i \in 1 .. Len(curves) : curves[i].alive
       /\ \A in \in Inputs :
             LET k1 == tick_setup_menu(Game, in.keys, now + 1, size, in.seed)
             IN (k1.panic = "" /\ k1.state.phase = "Setup") =>
                   LET k2 == tick_setup_curves(k1, in.held, now + 1, in.seed)
                   IN /\ Len(k2.curves) = Len(k1.curves)
                      /\ \A i \in 1 .. Len(k1.curves) :
                            Wrapped(k1.curves[i], k2.curves[i], k1.bounds)

\* an update of the Setup phase has just moved a living curve from the
\* minimum or from the maximum edge of the bounds on the x axis: the curve
\* had been put there, since no curve is placed on an edge
C32_WrappedThisTick ==
    /\ state.phase = "Setup"
    /\ handler = "Setup"
    /\ panic = ""
    /\ \E i \in 1 .. Len(curves) :
          /\ curves[i].alive
          /\ curves[i].velocity > 0
          /\ BeforeMv(curves[i]).x \in {bounds.x_min, bounds.x_max}

\* the number of segments tick_setup_curves lets a trail keep
TrailCap == 20

\* C33: after every update of the Setup phase the trail of every curve has
\* at most 20 segments; a curve whose trail is active after the update has
\* appended one segment, to a trail of less than 20, or to a trail of 20
\* whose oldest segment is dropped; a curve whose trail is not active has
\* left its trail as it was
C33_TrailCapped ==
    [][(handler' = "Setup" /\ state'.phase = "Setup" /\ panic' = ""
        /\ Roster(curves') = Roster(curves)) =>
         \A i \in 1 .. Len(curves') :
            /\ Len(curves'[i].lines) <= TrailCap
            /\ IF curves'[i].trail_active
               THEN /\ curves'[i].lines # << >>
                    /\ \/ /\ Len(curves[i].lines) < TrailCap
                          /\ Front(curves'[i].lines) = curves[i].lines
                       \/ /\ Len(curves[i].lines) = TrailCap
                          /\ Len(curves'[i].lines) = TrailCap
                          /\ Front(curves'[i].lines) = Tail(curves[i].lines)
               ELSE curves'[i].lines = curves[i].lines]_vars

\* the places a segment laid in the first update after Kurve::new starts
\* from, in pixels: the poses the curves are placed in
FirstPixels == { Point(Round(Poses(bounds)[q].x), Round(Poses(bounds)[q].y)) :
                   q \in 1 .. Len(Poses(bounds)) }

\* a trail holds 20 segments and its oldest is not the one laid in the first
\* update: segments have been dropped from the front
C33_OldestEvicted ==
    /\ state.phase = "Setup"
    /\ handler = "Setup"
    /\ \E i \in 1 .. Len(curves) :
          /\ Len(curves[i].lines) = TrailCap
          /\ curves[i].lines[1].points[1] \notin FirstPixels
          /\ curves[i].lines[1].points[1].x * PX \notin {bounds.x_min, bounds.x_max}

----------------------------------------------------------------------------
(* Properties of the timeouts and the roster *)

\* C34: the curve index of every pending timeout is the index of a curve of
\* the game, and the expiry of a timeout has not indexed the curves out of
\* range
C34_TimeoutsDesignateCurves ==
    /\ panic # "timeout.curve out of range"
    /\ \A n \in 1 .. Len(powers.power_timeouts) :
          powers.power_timeouts[n].curve < Len(curves)

----------------------------------------------------------------------------
(* Properties of the deserted round *)

\* C35: a tick of the Running arm that finds no living curve returns no
\* winner, leaves the phase Running and changes no score; and an update that
\* finds the phase Running and no living curve ends in Running or in Paused
C35_DesertedRoundGoesOn ==
    [][(AliveSet(curves) = {} /\ panic' = "") =>
         /\ handler' = "Running" =>
               /\ state'.phase = "Running"
               /\ returned' = None
               /\ ScoresOf(players') = ScoresOf(players)
         /\ state.phase = "Running" =>
               /\ state'.phase \in {"Running", "Paused"}
               /\ ScoresOf(players') = ScoresOf(players)]_vars

\* a Running tick has run on curves that were all dead before it: every
\* curve stands still and has laid its last two segments on the same spot
C35_DesertedTick ==
    /\ state.phase = "Running"
    /\ handler = "Running"
    /\ panic = ""
    /\ curves # << >>
    /\ \A i \in 1 .. Len(curves) :
          /\ ~curves[i].alive
          /\ curves[i].velocity = 0
          /\ Len(curves[i].lines) >= 2
          /\ curves[i].lines[Len(curves[i].lines)]
                = curves[i].lines[Len(curves[i].lines) - 1]

----------------------------------------------------------------------------
(* Properties of the player added in the pause *)

\* the curve c is one that was added in the pause of the round in progress:
\* it is not alive and has never moved, so that whatever trail it has laid
\* lies on the pixel it stands on (a curve that started the round has laid
\* its first segment where the round reset put it, and has moved since)
AddedInPause(c) ==
    /\ ~c.alive
    /\ c.velocity = 0
    /\ \A n \in 1 .. Len(c.lines) :
          c.lines[n].points = << Point(Round(c.position.x), Round(c.position.y)) >>

\* the step adds a player in the pause: its curve is not alive and stands still
AddedDead ==
    (handler' = "Paused" /\ state'.phase = "Paused" /\ panic' = ""
     /\ Len(curves') = Len(curves) + 1) =>
       /\ ~curves'[Len(curves')].alive
       /\ curves'[Len(curves')].velocity = 0

\* within the round a curve added in the pause stays not alive
AddedStaysDead ==
    (WithinRound /\ panic' = "") =>
       \A i \in 1 .. Len(curves) : AddedInPause(curves[i]) => ~curves'[i].alive

\* the winner a Running tick returns is not a player whose curve was added in
\* the pause
AddedNeverWins ==
    (handler' = "Running" /\ returned' # None /\ returned' < Len(curves)) =>
       ~AddedInPause(curves[returned' + 1])

\* C36: a player added in the pause gets a curve that is not alive and has
\* velocity 0; the curve stays not alive within the round, and its player
\* is not the winner a tick of the round returns
C36_AddedInPauseSitsOut ==
    [][AddedDead /\ AddedStaysDead /\ AddedNeverWins]_vars

----------------------------------------------------------------------------
(* Properties of the pools of the menu *)

\* the colours of the pool of the menu
PoolColors == { menu.colors[n] : n \in 1 .. Len(menu.colors) }

\* C37: no colour of the pool is the colour of a player's curve, and no two
\* players' curves have the same colour
C37_ColorsApart ==
    panic = "" =>
       /\ \A i \in 1 .. Len(curves) : curves[i].color \notin PoolColors
       /\ \A i, j \in 1 .. Len(curves) : i # j => curves[i].color # curves[j].color

\* the number of colours, and of pairs of move keys, of the game
PoolSize == 5

\* C38: the players and the colours of the pool are five together, the pool
\* of keys is as long as the pool of colours, there are as many curves as
\* players and so at most five, each with a bit of its own in the bit-set
\* of eight bits, and no player has been added from an empty pool
C38_PoolsAndRoster ==
    /\ panic # "pop().unwrap() on an empty pool"
    /\ panic = "" =>
          /\ Len(players) + Len(menu.colors) = PoolSize
          /\ Len(menu.keys) = Len(menu.colors)
          /\ Len(curves) = Len(players)
          /\ Len(curves) <= PoolSize
          /\ \A i \in 0 .. Len(curves) - 1 :
                /\ i < 8
                /\ \A j \in 0 .. Len(curves) - 1 : i # j => Pow2(i) # Pow2(j)

\* players have been added until both pools are empty: five players, five
\* curves
C38_FullRoster ==
    /\ panic = ""
    /\ Len(players) = PoolSize
    /\ Len(curves) = PoolSize
    /\ menu.colors = << >>
    /\ menu.keys = << >>

====
